---- MODULE Spec2Model ----
(***************************************************************************)
(* Model of munchr's recipe store (scraper/recipe_scraper.py): the SQLite  *)
(* table `recipes`, the writer scrape_and_store, the batch drivers         *)
(* bulk_scrape and search_allrecipes_live, and the query functions.        *)
(*                                                                         *)
(* A Python str is a sequence of characters; a character is a one-element  *)
(* name ("a", "%", "eacute" for U+00E9).  Python None / SQL NULL is the    *)
(* value None below.                                                       *)
(***************************************************************************)
EXTENDS Integers, Sequences, FiniteSets, TLC

VARIABLES
    store,      \* rows of table recipes, in rowid order
    schema,     \* TRUE once CREATE TABLE IF NOT EXISTS has run
    ret,        \* the last finished call: operation, arguments, result
    call,       \* the scrape_and_store call made by the last step, if any
    batch,      \* position of a running bulk_scrape / search_allrecipes_live
    origin,     \* for each URL, the page its stored record was scraped from
    procs,      \* concurrent calls (specifications SpecConc, SpecLock)
    lock,       \* the process holding SQLite's write lock, 0 when free
    menu,       \* the last scrape_menu_text call (specification SpecMenu)
    geo,        \* the last _get_bbox call (specification SpecGeo)
    overpass,   \* the get_restaurants call: its requests so far, its result
    robots,     \* the last is_scraping_allowed call
    gemini      \* the suggest_substitutes call: its model calls, its result

vars == <<store, schema, ret, call, batch, origin, procs, lock, menu, geo,
          overpass, robots, gemini>>

\* the state of scraper/menu_scraper.py, which the recipe store never touches
aside == <<menu, geo, overpass, robots, gemini>>

\* the state of scraper/recipe_scraper.py
recipes == <<store, schema, ret, call, batch, origin, procs, lock>>

-----------------------------------------------------------------------------
(* Bounds *)

MaxBatch == 2
MaxLinks == 2
MaxKeywords == 1
NumProcs == 2

-----------------------------------------------------------------------------
(* Strings *)

None == <<"None">>

\* Unicode code points of the characters used
Code(c) ==
    CASE c = " " -> 32
      [] c = "\"" -> 34
      [] c = "%" -> 37
      [] c = "," -> 44
      [] c = "0" -> 48
      [] c = "1" -> 49
      [] c = "2" -> 50
      [] c = "3" -> 51
      [] c = "4" -> 52
      [] c = "5" -> 53
      [] c = "6" -> 54
      [] c = "7" -> 55
      [] c = "8" -> 56
      [] c = "9" -> 57
      [] c = "A" -> 65
      [] c = "B" -> 66
      [] c = "[" -> 91
      [] c = "\\" -> 92
      [] c = "]" -> 93
      [] c = "_" -> 95
      [] c = "a" -> 97
      [] c = "b" -> 98
      [] c = "e" -> 101
      [] c = "u" -> 117
      [] c = "z" -> 122
      [] c = "eacute" -> 233

\* str(n) for a non-negative int
RECURSIVE PyStr(_)
PyStr(n) ==
    LET d == <<"0", "1", "2", "3", "4", "5", "6", "7", "8", "9">>[(n % 10) + 1]
    IN  IF n < 10 THEN <<d>> ELSE Append(PyStr(n \div 10), d)

\* json.dumps of one character inside a string (ensure_ascii=True)
JsonEscape(c) ==
    CASE c = "\"" -> <<"\\", "\"">>
      [] c = "\\" -> <<"\\", "\\">>
      [] c = "eacute" -> <<"\\", "u", "0", "0", "e", "9">>
      [] OTHER -> <<c>>

RECURSIVE JsonString(_)
JsonString(s) ==
    IF s = <<>> THEN <<>> ELSE JsonEscape(Head(s)) \o JsonString(Tail(s))

RECURSIVE JsonItems(_)
JsonItems(list) ==
    IF list = <<>> THEN <<>>
    ELSE <<"\"">> \o JsonString(Head(list)) \o <<"\"">>
         \o (IF Len(list) > 1 THEN <<",", " ">> ELSE <<>>)
         \o JsonItems(Tail(list))

\* json.dumps(list of str)
JsonDumps(list) == <<"[">> \o JsonItems(list) \o <<"]">>

JsonUnicode(hex) == IF hex = <<"0", "0", "e", "9">> THEN "eacute" ELSE "?"

RECURSIVE JsonParse(_, _, _, _)
JsonParse(t, inStr, cur, acc) ==
    IF t = <<>> THEN acc
    ELSE LET c == Head(t) IN
         IF ~inStr
         THEN IF c = "\"" THEN JsonParse(Tail(t), TRUE, <<>>, acc)
              ELSE JsonParse(Tail(t), FALSE, cur, acc)
         ELSE IF c = "\"" THEN JsonParse(Tail(t), FALSE, <<>>, Append(acc, cur))
         ELSE IF c = "\\"
              THEN IF t[2] = "u"
                   THEN JsonParse(SubSeq(t, 7, Len(t)), TRUE,
                                  Append(cur, JsonUnicode(SubSeq(t, 3, 6))), acc)
                   ELSE JsonParse(SubSeq(t, 3, Len(t)), TRUE, Append(cur, t[2]), acc)
         ELSE JsonParse(Tail(t), TRUE, Append(cur, c), acc)

\* json.loads of a JSON array of strings
JsonLoads(text) == JsonParse(text, FALSE, <<>>, <<>>)

\* ORDER BY title: SQLite's BINARY collation, byte order of the UTF-8 text
RECURSIVE StrLeq(_, _)
StrLeq(s, t) ==
    IF s = <<>> THEN TRUE
    ELSE IF t = <<>> THEN FALSE
    ELSE IF Code(Head(s)) < Code(Head(t)) THEN TRUE
    ELSE IF Code(Head(s)) > Code(Head(t)) THEN FALSE
    ELSE StrLeq(Tail(s), Tail(t))

\* COLLATE NOCASE / LIKE fold the 26 ASCII letters only
NoCase(c) == CASE c = "A" -> "a" [] c = "B" -> "b" [] OTHER -> c

\* SQLite's LIKE: % matches any run of characters, _ any one character
RECURSIVE Like(_, _)
Like(p, t) ==
    IF p = <<>> THEN t = <<>>
    ELSE IF Head(p) = "%"
         THEN Like(Tail(p), t) \/ (t # <<>> /\ Like(p, Tail(t)))
    ELSE IF t = <<>> THEN FALSE
    ELSE IF Head(p) = "_" THEN Like(Tail(p), Tail(t))
    ELSE NoCase(Head(p)) = NoCase(Head(t)) /\ Like(Tail(p), Tail(t))

\* column LIKE ? : NULL LIKE x is NULL, which WHERE treats as false
LikeCol(p, col) == col # None /\ Like(p, col)

Whitespace == {" "}

RECURSIVE LStrip(_)
LStrip(s) ==
    IF s # <<>> /\ Head(s) \in Whitespace THEN LStrip(Tail(s)) ELSE s

RECURSIVE RStrip(_)
RStrip(s) ==
    IF s # <<>> /\ s[Len(s)] \in Whitespace
    THEN RStrip(SubSeq(s, 1, Len(s) - 1)) ELSE s

Strip(s) == RStrip(LStrip(s))

RECURSIVE SplitWords(_, _, _)
SplitWords(s, cur, acc) ==
    IF s = <<>> THEN (IF cur = <<>> THEN acc ELSE Append(acc, cur))
    ELSE IF Head(s) \in Whitespace
         THEN SplitWords(Tail(s), <<>>, IF cur = <<>> THEN acc ELSE Append(acc, cur))
    ELSE SplitWords(Tail(s), Append(cur, Head(s)), acc)

\* str.split() with no separator
Split(s) == SplitWords(s, <<>>, <<>>)

-----------------------------------------------------------------------------
(* Inputs: URLs and what the network serves for them *)

Url(i) == <<"recipe", i>>
URLs == {Url(1), Url(2)}

\* What recipe-scrapers reads from a page.  image = <<>> and total_time = 0
\* stand for the falsy values (None, "", 0) the code maps to NULL; cuisine is
\* a string, None, or Raises when scraper.cuisine() throws.
Raises == <<"raise">>

PageA == [title |-> <<"A", "b">>,
          ingredients |-> << <<"a">>, <<"b">> >>,
          instructions |-> << <<"b">>, <<"b">>, <<"\\">> >>,
          image |-> <<>>, total_time |-> 0, cuisine |-> None]

PageB == [title |-> <<"a">>,
          ingredients |-> << <<"a", "\"", "b">> >>,
          instructions |-> << <<"eacute">> >>,
          image |-> <<"u">>, total_time |-> 30, cuisine |-> <<"b">>]

PageC == [title |-> <<"a">>,
          ingredients |-> <<>>,
          instructions |-> <<>>,
          image |-> <<>>, total_time |-> 5, cuisine |-> Raises]

Pages == {PageA, PageB, PageC}

NoPage == [title |-> <<>>, ingredients |-> <<>>, instructions |-> <<>>,
           image |-> <<>>, total_time |-> 0, cuisine |-> None]

\* outcome of requests.get + raise_for_status + scrape_html + field getters
Outcomes ==
    {[kind |-> "fetch_error", page |-> NoPage],
     [kind |-> "parse_error", page |-> NoPage]}
    \cup {[kind |-> "ok", page |-> p] : p \in Pages}

-----------------------------------------------------------------------------
(* The store *)

\* the column values scrape_and_store binds to the INSERT
RecipeFields(url, page) ==
    [title |-> page.title,
     url |-> url,
     ingredients |-> JsonDumps(page.ingredients),
     instructions |-> JsonDumps(page.instructions),
     image_url |-> IF page.image # <<>> THEN page.image ELSE None,
     cuisine |-> IF page.cuisine = Raises THEN None ELSE page.cuisine,
     total_time |-> IF page.total_time # 0 THEN PyStr(page.total_time) ELSE None]

HasUrl(rows, url) == \E i \in 1..Len(rows) : rows[i].url = url

\* INSERT without conflict handling on a table without the UNIQUE constraint
InsertAlways(rows, f) ==
    [rows |-> Append(rows, [id |-> Len(rows) + 1] @@ f), rowcount |-> 1]

\* INSERT OR REPLACE: the conflicting row is deleted, the new one appended
InsertOrReplace(rows, f) ==
    [rows |-> Append(SelectSeq(rows, LAMBDA r : r.url # f.url),
                     [id |-> Len(rows) + 1] @@ f),
     rowcount |-> 1]

\* INSERT OR IGNORE INTO recipes, url TEXT UNIQUE NOT NULL, id AUTOINCREMENT
InsertOrIgnore(rows, f) ==
    IF HasUrl(rows, f.url)
    THEN [rows |-> rows, rowcount |-> 0]
    ELSE [rows |-> Append(rows, [id |-> Len(rows) + 1] @@ f), rowcount |-> 1]

\* the try block with no handler around scraper.cuisine()
ScrapeBodyCuisineAborts(rows, url, outcome) ==
    IF outcome.kind # "ok" \/ outcome.page.cuisine = Raises
    THEN [raised |-> TRUE, val |-> FALSE, rows |-> rows]
    ELSE LET ins == InsertOrIgnore(rows, RecipeFields(url, outcome.page))
         IN  [raised |-> FALSE, val |-> ins.rowcount > 0, rows |-> ins.rows]

\* the try block of scrape_and_store
ScrapeBody(rows, url, outcome) ==
    IF outcome.kind # "ok"
    THEN [raised |-> TRUE, val |-> FALSE, rows |-> rows]
    ELSE LET ins == InsertOrIgnore(rows, RecipeFields(url, outcome.page))
         IN  [raised |-> FALSE, val |-> ins.rowcount > 0, rows |-> ins.rows]

\* scrape_and_store without its except clause
ScrapeNoExcept(rows, url, outcome) == ScrapeBody(rows, url, outcome)

\* scrape_and_store returning True whenever nothing was raised
ScrapeAlwaysTrue(rows, url, outcome) ==
    LET b == ScrapeBody(rows, url, outcome)
    IN  IF b.raised THEN [raised |-> FALSE, val |-> FALSE, rows |-> rows]
        ELSE [b EXCEPT !.val = TRUE]

\* scrape_and_store: try body, except Exception -> return False
ScrapeAndStore(rows, url, outcome) ==
    LET b == ScrapeBody(rows, url, outcome)
    IN  IF b.raised THEN [raised |-> FALSE, val |-> FALSE, rows |-> rows]
        ELSE b

\* a row handed out with each JSON column's stored text as its only element
RowAsStored(row) ==
    [row EXCEPT !.ingredients = <<row.ingredients>>,
                !.instructions = <<row.instructions>>]

\* _row_to_dict
RowToDict(row) ==
    [row EXCEPT
        !.ingredients = IF row.ingredients # <<>> THEN JsonLoads(row.ingredients) ELSE <<>>,
        !.instructions = IF row.instructions # <<>> THEN JsonLoads(row.instructions) ELSE <<>>]

RowsToDicts(rows) == [i \in 1..Len(rows) |-> RowToDict(rows[i])]

\* any arrangement of the rows
AnyOrder(rows) ==
    IF rows = <<>> THEN {<<>>}
    ELSE {[i \in 1..Len(rows) |-> rows[p[i]]] : p \in Permutations(1..Len(rows))}

\* ORDER BY title: the arrangements of rows that ascend by title (rows with
\* equal titles come out in an order SQL leaves open)
OrderByTitle(rows) ==
    IF rows = <<>> THEN {<<>>}
    ELSE {[i \in 1..Len(rows) |-> rows[p[i]]] :
            p \in {q \in Permutations(1..Len(rows)) :
                     \A i \in 1..(Len(rows) - 1) :
                        StrLeq(rows[q[i]].title, rows[q[i + 1]].title)}}

\* the WHERE clause search_recipes builds: AND over keywords, OR over columns
RowMatches(row, keywords) ==
    \A k \in 1..Len(keywords) :
        LET like == <<"%">> \o keywords[k] \o <<"%">>
        IN  \/ LikeCol(like, row.title)
            \/ LikeCol(like, row.ingredients)
            \/ LikeCol(like, row.instructions)
            \/ LikeCol(like, row.cuisine)

\* search_recipes without the empty-keyword return
SearchNoGuard(rows, query) ==
    SelectSeq(rows, LAMBDA r : RowMatches(r, Split(Strip(query))))

\* the rows search_recipes selects, before ordering
SearchRows(rows, query) ==
    LET keywords == Split(Strip(query))
    IN  IF keywords = <<>> THEN <<>>
        ELSE SelectSeq(rows, LAMBDA r : RowMatches(r, keywords))

-----------------------------------------------------------------------------
(* search_allrecipes_live: the links of the results page *)

\* an <a href> that matches neither recipe URL pattern
OtherLink == <<"other", 0>>
Links == URLs \cup {OtherLink}

\* every link counted as a recipe link
AnyLink(href) == TRUE

\* re.search(r"allrecipes\.com/[\w-]+-recipe-\d+") or r"allrecipes\.com/recipe/\d+/"
IsRecipeLink(href) == href[1] = "recipe"

\* the loop without its break: every matching link is collected
RECURSIVE CollectUrlsNoLimit(_, _, _, _)
CollectUrlsNoLimit(links, seen, recipe_urls, max_results) ==
    IF links = <<>> THEN recipe_urls
    ELSE LET href == Head(links) IN
         IF href \in seen \/ ~IsRecipeLink(href)
         THEN CollectUrlsNoLimit(Tail(links), seen, recipe_urls, max_results)
         ELSE CollectUrlsNoLimit(Tail(links), seen \cup {href},
                                 Append(recipe_urls, href), max_results)

\* the loop over soup.find_all("a", href=True)
RECURSIVE CollectUrls(_, _, _, _)
CollectUrls(links, seen, recipe_urls, max_results) ==
    IF links = <<>> THEN recipe_urls
    ELSE LET href == Head(links) IN
         IF href \in seen
         THEN CollectUrls(Tail(links), seen, recipe_urls, max_results)
         ELSE LET hit == IsRecipeLink(href)
                  urls2 == IF hit THEN Append(recipe_urls, href) ELSE recipe_urls
                  seen2 == IF hit THEN seen \cup {href} ELSE seen
              IN  IF Len(urls2) >= max_results THEN urls2
                  ELSE CollectUrls(Tail(links), seen2, urls2, max_results)

SeqsUpTo(S, n) == UNION {[1..k -> S] : k \in 0..n}

\* SELECT * FROM recipes with no WHERE clause
RowsWithAnyUrl(rows, urls) == rows

\* SELECT * FROM recipes WHERE url IN (...)
RowsWithUrlIn(rows, urls) ==
    SelectSeq(rows, LAMBDA r : \E i \in 1..Len(urls) : urls[i] = r.url)

-----------------------------------------------------------------------------
(* Queries the model asks *)

Join(words) ==
    IF Len(words) = 0 THEN <<>>
    ELSE IF Len(words) = 1 THEN words[1]
    ELSE IF Len(words) = 2 THEN words[1] \o <<" ">> \o words[2]
    ELSE words[1] \o <<" ">> \o words[2] \o <<" ">> \o words[3]

Keywords == {<<"a">>, <<"b">>, <<"%">>}

Queries ==
    {Join(w) : w \in SeqsUpTo(Keywords, MaxKeywords)}
    \cup {<<" ">>, <<" ", " ">>, <<" ", "A", " ", " ", "b", " ">>,
          <<"_">>, <<"[">>, <<"\"">>, <<",">>, <<"z">>, <<"a", "b">>,
          <<"a", "\"", "b">>, <<"eacute">>, <<"a", " ", "z">>}

-----------------------------------------------------------------------------
(* The sequential program: one call at a time *)

Idle == [op |-> "none"]
NoMenu == [op |-> "none"]
NoGeo == [op |-> "none"]
NoOverpass == [op |-> "none"]
NoRobots == [op |-> "none"]
NoGemini == [op |-> "none"]

\* the page a call's new record was built from is remembered for its URL
Remember(org, url, outcome, r) ==
    IF r.val THEN [org EXCEPT ![url] = outcome.page] ELSE org
NoCall == [op |-> "none"]

\* the record of one scrape_and_store(url) call and what it returned
ScrapeCallRecord(url, outcome, r) ==
    [op |-> "scrape_and_store", url |-> url, outcome |-> outcome,
     val |-> r.val, raised |-> r.raised]

Init ==
    /\ store = <<>>
    /\ schema = FALSE
    /\ ret = [op |-> "none"]
    /\ call = NoCall
    /\ batch = Idle
    /\ origin = [u \in URLs |-> NoPage]
    /\ procs = <<>>
    /\ lock = 0
    /\ menu = NoMenu
    /\ geo = NoGeo
    /\ overpass = NoOverpass
    /\ robots = NoRobots
    /\ gemini = NoGemini

\* init_db()
InitDb ==
    /\ batch = Idle
    /\ schema' = TRUE
    /\ ret' = [op |-> "init_db"]
    /\ call' = NoCall
    /\ UNCHANGED <<store, batch, procs, lock, origin, aside>>

\* scrape_and_store(url), with the page the network serves for it
ScrapeCall ==
    /\ batch = Idle
    /\ \E url \in URLs, outcome \in Outcomes :
         LET r == ScrapeAndStore(store, url, outcome) IN
         /\ store' = r.rows
         /\ schema' = (schema \/ outcome.kind = "ok")
         /\ origin' = Remember(origin, url, outcome, r)
         /\ call' = ScrapeCallRecord(url, outcome, r)
         /\ ret' = call'
    /\ UNCHANGED <<batch, procs, lock, aside>>

\* get_all_recipes()
GetAllRecipes ==
    /\ batch = Idle
    /\ \E rows \in OrderByTitle(store) :
         ret' = [op |-> "get_all_recipes", val |-> RowsToDicts(rows)]
    /\ schema' = TRUE
    /\ call' = NoCall
    /\ UNCHANGED <<store, batch, procs, lock, origin, aside>>

\* search_recipes(query)
SearchRecipes ==
    /\ batch = Idle
    /\ \E query \in Queries :
         \E rows \in OrderByTitle(SearchRows(store, query)) :
            ret' = [op |-> "search_recipes", query |-> query,
                    val |-> RowsToDicts(rows), raised |-> FALSE]
    /\ schema' = TRUE
    /\ call' = NoCall
    /\ UNCHANGED <<store, batch, procs, lock, origin, aside>>

\* SELECT ... ORDER BY RANDOM() LIMIT 1 that may also come back without a row
RandomRecipeOrNothing(rows) ==
    {[none |-> TRUE, val |-> <<>>]}
    \cup {[none |-> FALSE, val |-> <<RowToDict(rows[i])>>] : i \in 1..Len(rows)}

\* what get_random_recipe can return: None (none = TRUE) when fetchone()
\* finds no row, else the dict of any one row
RandomRecipe(rows) ==
    IF rows = <<>> THEN {[none |-> TRUE, val |-> <<>>]}
    ELSE {[none |-> FALSE, val |-> <<RowToDict(rows[i])>>] : i \in 1..Len(rows)}

\* get_random_recipe()
GetRandomRecipe ==
    /\ batch = Idle
    /\ \E r \in RandomRecipe(store) :
         ret' = [op |-> "get_random_recipe", none |-> r.none, val |-> r.val,
                 raised |-> FALSE]
    /\ schema' = TRUE
    /\ call' = NoCall
    /\ UNCHANGED <<store, batch, procs, lock, origin, aside>>

\* get_recipe_count()
GetRecipeCount ==
    /\ batch = Idle
    /\ ret' = [op |-> "get_recipe_count", val |-> Len(store)]
    /\ schema' = TRUE
    /\ call' = NoCall
    /\ UNCHANGED <<store, batch, procs, lock, origin, aside>>

\* seconds of time.sleep between two items of bulk_scrape
BulkSleepSeconds == 2

\* seconds of time.sleep between two requests of search_allrecipes_live
LiveSleepSeconds == 1

\* if i < len(url_list), i counting from 1
BulkSleeps(i, n) == i < n

\* a pause after every request, the last one too
LiveAlwaysSleeps(i, n) == TRUE

\* if i < len(recipe_urls) - 1, i counting from 0
LiveSleeps(i, n) == i < n - 1

\* bulk_scrape(url_list): entry; an empty list returns 0 at once
BulkScrapeCall ==
    /\ batch = Idle
    /\ \E url_list \in SeqsUpTo(URLs, MaxBatch) :
         IF url_list = <<>>
         THEN /\ ret' = [op |-> "bulk_scrape", urls |-> url_list, val |-> 0,
                         raised |-> FALSE, before |-> Len(store), sleeps |-> 0,
                         slept |-> 0]
              /\ batch' = Idle
         ELSE /\ ret' = [op |-> "running"]
              /\ batch' = [op |-> "bulk_scrape", urls |-> url_list, i |-> 0,
                           stored_count |-> 0, before |-> Len(store), sleeps |-> 0,
                           slept |-> 0]
    /\ call' = NoCall
    /\ UNCHANGED <<store, schema, procs, lock, origin, aside>>

\* one iteration of bulk_scrape's loop; the last one returns stored_count
BulkScrapeStep ==
    /\ batch.op = "bulk_scrape"
    /\ \E outcome \in Outcomes :
         LET i == batch.i + 1
             r == ScrapeAndStore(store, batch.urls[i], outcome)
             count == batch.stored_count + (IF r.val THEN 1 ELSE 0)
             sleep == BulkSleeps(i, Len(batch.urls))
             sleeps == batch.sleeps + (IF sleep THEN 1 ELSE 0)
             slept == batch.slept + (IF sleep THEN BulkSleepSeconds ELSE 0)
         IN  /\ store' = r.rows
             /\ origin' = Remember(origin, batch.urls[i], outcome, r)
             /\ call' = ScrapeCallRecord(batch.urls[i], outcome, r)
             /\ schema' = (schema \/ outcome.kind = "ok")
             /\ IF r.raised \/ i = Len(batch.urls)
                THEN /\ batch' = Idle
                     /\ ret' = [op |-> "bulk_scrape", urls |-> batch.urls,
                                val |-> count, raised |-> r.raised,
                                before |-> batch.before, sleeps |-> sleeps,
                                slept |-> slept]
                ELSE /\ batch' = [batch EXCEPT !.i = i, !.stored_count = count,
                                               !.sleeps = sleeps, !.slept = slept]
                     /\ ret' = ret
    /\ UNCHANGED <<procs, lock, aside>>

\* search_allrecipes_live(query, max_results): fetch and parse the results page
LiveSearchCall ==
    /\ batch = Idle
    /\ \E page \in {<<FALSE, <<>>>>} \cup ({TRUE} \X SeqsUpTo(Links, MaxLinks)),
          max_results \in 0..MaxLinks :
         LET fetched == page[1]
             recipe_urls == CollectUrls(page[2], {}, <<>>, max_results)
         IN
         IF ~fetched \/ recipe_urls = <<>>
         THEN /\ ret' = [op |-> "search_allrecipes_live", urls |-> <<>>,
                         max_results |-> max_results, val |-> <<>>,
                         raised |-> FALSE, requests |-> 0, sleeps |-> 0,
                         slept |-> 0, fetched |-> fetched, links |-> page[2]]
              /\ batch' = Idle
         ELSE /\ ret' = [op |-> "running"]
              /\ batch' = [op |-> "search_allrecipes_live", urls |-> recipe_urls,
                           max_results |-> max_results, i |-> 0, sleeps |-> 0,
                           slept |-> 0, links |-> page[2]]
    /\ call' = NoCall
    /\ UNCHANGED <<store, schema, procs, lock, origin, aside>>

\* one iteration of the scrape loop; after the last one the store is queried
LiveSearchStep ==
    /\ batch.op = "search_allrecipes_live"
    /\ \E outcome \in Outcomes :
         LET i == batch.i + 1
             r == ScrapeAndStore(store, batch.urls[i], outcome)
             sleep == LiveSleeps(i - 1, Len(batch.urls))
             sleeps == batch.sleeps + (IF sleep THEN 1 ELSE 0)
             slept == batch.slept + (IF sleep THEN LiveSleepSeconds ELSE 0)
         IN  /\ store' = r.rows
             /\ origin' = Remember(origin, batch.urls[i], outcome, r)
             /\ call' = ScrapeCallRecord(batch.urls[i], outcome, r)
             /\ IF r.raised
                THEN /\ batch' = Idle
                     /\ schema' = schema
                     /\ ret' = [op |-> "search_allrecipes_live", urls |-> batch.urls,
                                max_results |-> batch.max_results, val |-> <<>>,
                                raised |-> TRUE, requests |-> i, sleeps |-> sleeps,
                                slept |-> slept, fetched |-> TRUE,
                                links |-> batch.links]
                ELSE IF i = Len(batch.urls)
                THEN /\ batch' = Idle
                     /\ schema' = TRUE
                     /\ \E rows \in OrderByTitle(RowsWithUrlIn(r.rows, batch.urls)) :
                          ret' = [op |-> "search_allrecipes_live", urls |-> batch.urls,
                                  max_results |-> batch.max_results,
                                  val |-> RowsToDicts(rows), raised |-> FALSE,
                                  requests |-> i, sleeps |-> sleeps,
                                  slept |-> slept, fetched |-> TRUE,
                                  links |-> batch.links]
                ELSE /\ batch' = [batch EXCEPT !.i = i, !.sleeps = sleeps,
                                               !.slept = slept]
                     /\ schema' = (schema \/ outcome.kind = "ok")
                     /\ ret' = ret
    /\ UNCHANGED <<procs, lock, aside>>

Next ==
    \/ InitDb
    \/ ScrapeCall
    \/ GetAllRecipes
    \/ SearchRecipes
    \/ GetRandomRecipe
    \/ GetRecipeCount
    \/ BulkScrapeCall
    \/ BulkScrapeStep
    \/ LiveSearchCall
    \/ LiveSearchStep

Spec == Init /\ [][Next]_vars

-----------------------------------------------------------------------------
(* Concurrent writers: NumProcs scrape_and_store calls against one database *)

Procs == 1..NumProcs

NoPending == [rows |-> <<>>, rowcount |-> 0]

\* a statement that writes proceeds without SQLite's write lock
CanWriteUnlocked(lk, p) == TRUE

\* cursor.execute(INSERT ...) needs SQLite's RESERVED lock: one writer at a time
CanWrite(lk, p) == lk = 0

InitConc ==
    /\ store = <<>>
    /\ schema = FALSE
    /\ ret = [op |-> "none"]
    /\ call = NoCall
    /\ batch = Idle
    /\ origin = [u \in URLs |-> NoPage]
    /\ menu = NoMenu
    /\ geo = NoGeo
    /\ overpass = NoOverpass
    /\ robots = NoRobots
    /\ gemini = NoGemini
    /\ lock = 0
    /\ procs \in [Procs -> {[pc |-> "start", url |-> u, got |-> FALSE, page |-> NoPage,
                             pending |-> NoPending, val |-> FALSE, raised |-> FALSE,
                             conn |-> "none"] :
                            u \in URLs}]

\* requests.get ... scraper getters: a failure is caught and returns False
ConcFetch(p) ==
    /\ procs[p].pc = "start"
    /\ \E outcome \in Outcomes :
         LET b == ScrapeAndStore(store, procs[p].url, outcome) IN
         IF outcome.kind # "ok"
         THEN procs' = [procs EXCEPT ![p].pc = "done", ![p].val = b.val,
                                     ![p].raised = b.raised]
         ELSE procs' = [procs EXCEPT ![p].pc = "parsed", ![p].got = TRUE,
                                     ![p].page = outcome.page]
    /\ UNCHANGED <<store, schema, ret, call, batch, origin, lock, aside>>

\* init_db() and cursor.execute(INSERT OR IGNORE ...): takes the write lock and
\* decides rowcount against the committed table
ConcInsert(p) ==
    /\ procs[p].pc = "parsed"
    /\ CanWrite(lock, p)
    /\ lock' = p
    /\ schema' = TRUE
    /\ procs' = [procs EXCEPT ![p].pc = "inserted", ![p].conn = "open",
                   ![p].pending = InsertOrIgnore(store,
                                     RecipeFields(procs[p].url, procs[p].page))]
    /\ UNCHANGED <<store, ret, call, batch, origin, aside>>

\* the write lock stays with another connection past the busy timeout:
\* sqlite3.OperationalError, caught by except Exception, returns False
ConcBusy(p) ==
    /\ procs[p].pc = "parsed"
    /\ lock \notin {0, p}
    /\ procs' = [procs EXCEPT ![p].pc = "done", ![p].val = FALSE, ![p].raised = FALSE,
                              ![p].conn = "open"]
    /\ UNCHANGED <<store, schema, ret, call, batch, origin, lock, aside>>

\* the connections between cursor.execute(SELECT ...) and the end of the
\* fetch: they hold SQLite's SHARED lock
Reading == {q \in DOMAIN procs : procs[q].pc = "reading"}

\* conn.commit(), inserted = cursor.rowcount > 0, conn.close(), return inserted;
\* the commit needs the EXCLUSIVE lock, which no SHARED lock may stand against
ConcCommit(p) ==
    /\ procs[p].pc \in {"inserted", "pending"}
    /\ Reading = {}
    /\ store' = procs[p].pending.rows
    /\ lock' = 0
    /\ procs' = [procs EXCEPT ![p].pc = "done", ![p].conn = "closed",
                              ![p].val = (procs[p].pending.rowcount > 0)]
    /\ origin' = IF procs[p].pending.rowcount > 0
                 THEN [origin EXCEPT ![procs[p].url] = procs[p].page] ELSE origin
    /\ UNCHANGED <<schema, ret, call, batch, aside>>

NextConc ==
    \E p \in Procs :
        \/ ConcFetch(p)
        \/ ConcInsert(p)
        \/ ConcBusy(p)
        \/ ConcCommit(p)

SpecConc == InitConc /\ [][NextConc]_vars

-----------------------------------------------------------------------------
(* Readers beside the writers: sqlite3.connect(DB_PATH) leaves the database in
   its default rollback-journal mode *)

ReaderOps == {"search_recipes", "get_all_recipes", "get_random_recipe",
              "get_recipe_count"}

IsReader(p) == "op" \in DOMAIN procs[p]

\* the holders of the PENDING lock: commits waiting for the readers to leave
Pending == {q \in DOMAIN procs : procs[q].pc = "pending"}

\* one scrape_and_store call and NumProcs calls of query functions
InitLock ==
    /\ store = <<>>
    /\ schema = FALSE
    /\ ret = [op |-> "none"]
    /\ call = NoCall
    /\ batch = Idle
    /\ origin = [u \in URLs |-> NoPage]
    /\ menu = NoMenu
    /\ geo = NoGeo
    /\ overpass = NoOverpass
    /\ robots = NoRobots
    /\ gemini = NoGemini
    /\ lock = 0
    /\ \E u \in URLs, ops \in [2..(NumProcs + 1) -> ReaderOps] :
         procs = [p \in 1..(NumProcs + 1) |->
                    IF p = 1
                    THEN [pc |-> "start", url |-> u, got |-> FALSE, page |-> NoPage,
                          pending |-> NoPending, val |-> FALSE, raised |-> FALSE,
                          conn |-> "none"]
                    ELSE [pc |-> "query", op |-> ops[p], raised |-> FALSE,
                          conn |-> "none"]]

\* conn.commit() while a reader holds SHARED: the connection takes PENDING
\* and waits, for the busy timeout at most, until the readers have left
ConcCommitWait(p) ==
    /\ procs[p].pc = "inserted"
    /\ Reading # {}
    /\ procs' = [procs EXCEPT ![p].pc = "pending"]
    /\ UNCHANGED <<store, schema, ret, call, batch, origin, lock, aside>>

\* the readers outstay the busy timeout: conn.commit() raises
\* sqlite3.OperationalError, except Exception returns False, and the
\* insert is rolled back when the connection goes
ConcCommitBusy(p) ==
    /\ procs[p].pc = "pending"
    /\ Reading # {}
    /\ lock' = 0
    /\ procs' = [procs EXCEPT ![p].pc = "done", ![p].val = FALSE,
                              ![p].raised = FALSE]
    /\ UNCHANGED <<store, schema, ret, call, batch, origin, aside>>

\* init_db() and cursor.execute(SELECT ...) of a query function: the
\* connection takes SHARED, which a PENDING lock forbids
ReadExecute(p) ==
    /\ procs[p].pc = "query"
    /\ Pending = {}
    /\ schema' = TRUE
    /\ procs' = [procs EXCEPT ![p].pc = "reading", ![p].conn = "open"]
    /\ UNCHANGED <<store, ret, call, batch, origin, lock, aside>>

\* PENDING stays past the busy timeout: the connection is open and the
\* first statement raises sqlite3.OperationalError, which no query function
\* catches
ReadBusy(p) ==
    /\ procs[p].pc = "query"
    /\ Pending # {}
    /\ procs' = [procs EXCEPT ![p].pc = "done", ![p].raised = TRUE,
                              ![p].conn = "open"]
    /\ UNCHANGED <<store, schema, ret, call, batch, origin, lock, aside>>

\* cursor.fetchall() or fetchone(), conn.close(), return
ReadFetch(p) ==
    /\ procs[p].pc = "reading"
    /\ procs' = [procs EXCEPT ![p].pc = "done", ![p].conn = "closed"]
    /\ UNCHANGED <<store, schema, ret, call, batch, origin, lock, aside>>

\* with one writer the RESERVED lock is always to be had
NextLock ==
    \E p \in DOMAIN procs :
        \/ ConcFetch(p)
        \/ ConcInsert(p)
        \/ ConcCommit(p)
        \/ ConcCommitWait(p)
        \/ ConcCommitBusy(p)
        \/ ReadExecute(p)
        \/ ReadBusy(p)
        \/ ReadFetch(p)

SpecLock == InitLock /\ [][NextLock]_vars

\* C31 as stated: a reader of the store (search_recipes, get_all_recipes,
\* get_random_recipe, get_recipe_count) never blocks a concurrent
\* scrape_and_store nor another reader, and a writer never blocks a reader:
\* no commit waits for a reader's lock, and no query fails because of a
\* writer's.
ReadersWritersNeverBlock ==
    \A p \in DOMAIN procs :
        /\ procs[p].pc # "pending"
        /\ IsReader(p) => ~procs[p].raised

\* C40 as stated: every store connection an operation has opened is closed
\* before the operation returns, on every path, those where the insert or
\* the query fails after the connection was opened among them.
ConnectionsClosedOnReturn ==
    \A p \in DOMAIN procs : procs[p].pc = "done" => procs[p].conn # "open"

-----------------------------------------------------------------------------
(* Properties *)

RowsFor(url) == {i \in 1..Len(store) : store[i].url = url}

\* C1: in every reachable state, no two stored records share a URL.
NoDuplicateUrls ==
    \A i, j \in 1..Len(store) : store[i].url = store[j].url => i = j

\* a second insert for a stored URL was attempted with different content
DuplicateInsertAttempted ==
    /\ call.op = "scrape_and_store"
    /\ call.outcome.kind = "ok"
    /\ \E i \in 1..Len(store) :
         /\ store[i].url = call.url
         /\ store[i].title # call.outcome.page.title

\* C2: scrape_and_store for a URL already stored returns False, raises
\* nothing, and leaves every field of every stored record as it was.
DuplicateIsNoOp ==
    [][(call'.op = "scrape_and_store" /\ RowsFor(call'.url) # {})
        => (call'.val = FALSE /\ ~call'.raised /\ store' = store)]_vars

\* the page now yields other ingredients than the stored record has
DuplicateWithOtherContent ==
    /\ call.op = "scrape_and_store"
    /\ call.outcome.kind = "ok"
    /\ ~call.val
    /\ \E i \in 1..Len(store) :
         /\ store[i].url = call.url
         /\ store[i].ingredients # JsonDumps(call.outcome.page.ingredients)

\* C3: scrape_and_store returns True exactly when the call added one record,
\* the record with the call's URL; when it returns False the store is as before.
TrueIffInserted ==
    [][call'.op = "scrape_and_store"
        => /\ call'.val <=> /\ Len(store') = Len(store) + 1
                            /\ SubSeq(store', 1, Len(store)) = store
                            /\ store'[Len(store')].url = call'.url
           /\ ~call'.val => store' = store]_vars

\* a call returned True for the second record of the store
InsertReturnedTrue ==
    /\ call.op = "scrape_and_store"
    /\ call.val
    /\ Len(store) = 2
    /\ store[2].url = call.url

\* C4: when the fetch or the parse fails, scrape_and_store returns False,
\* raises nothing and leaves the store unchanged.
FailureReturnsFalse ==
    [][(call'.op = "scrape_and_store" /\ call'.outcome.kind \in {"fetch_error", "parse_error"})
        => (call'.val = FALSE /\ ~call'.raised /\ store' = store)]_vars

\* a failed call inside a batch, with records already stored
FailureInBatch ==
    /\ call.op = "scrape_and_store"
    /\ call.outcome.kind = "parse_error"
    /\ batch # Idle
    /\ store # <<>>

QueryOps == {"search_recipes", "get_all_recipes", "get_random_recipe", "get_recipe_count"}

\* C5: every step keeps each stored record, unchanged and in place (so the
\* count never decreases), and a query step leaves the store as it was.
StoreOnlyGrows ==
    [][/\ Len(store') >= Len(store)
       /\ SubSeq(store', 1, Len(store)) = store
       /\ ret'.op \in QueryOps => store' = store]_vars

\* a query ran on a store of two records after a duplicate insert was tried
QueryAfterGrowth ==
    /\ ret.op \in QueryOps
    /\ Len(store) = 2
    /\ schema

AllDone == \A p \in Procs : procs[p].pc = "done"
SameUrl == \A p, q \in Procs : procs[p].url = procs[q].url

CaseFold(c) == CASE c = "A" -> "a" [] c = "B" -> "b" [] OTHER -> c

\* kw occurs in text as a literal substring, ignoring case
Occurs(kw, text) ==
    \E i \in 0..(Len(text) - Len(kw)) :
        \A j \in 1..Len(kw) : CaseFold(kw[j]) = CaseFold(text[i + j])

\* kw occurs in one of the four searchable fields of a returned record
KeywordInRecord(kw, d) ==
    \/ Occurs(kw, d.title)
    \/ \E i \in 1..Len(d.ingredients) : Occurs(kw, d.ingredients[i])
    \/ \E i \in 1..Len(d.instructions) : Occurs(kw, d.instructions[i])
    \/ (d.cuisine # None /\ Occurs(kw, d.cuisine))

IsSpace(q, i) == q[i] = " "

\* the whitespace-delimited keywords of a query: its maximal runs of non-blanks
QueryWords(q) ==
    {SubSeq(q, i, j) : <<i, j>> \in
        {x \in (1..Len(q)) \X (1..Len(q)) :
            /\ x[1] <= x[2]
            /\ \A k \in x[1]..x[2] : ~IsSpace(q, k)
            /\ (x[1] = 1 \/ IsSpace(q, x[1] - 1))
            /\ (x[2] = Len(q) \/ IsSpace(q, x[2] + 1))}}

\* C7: every record search_recipes returns has each keyword of the query as a
\* literal, case-insensitive substring of its title, an ingredient, an
\* instruction or its cuisine.
SearchSound ==
    ret.op = "search_recipes"
        => \A i \in 1..Len(ret.val) :
              \A kw \in QueryWords(ret.query) : KeywordInRecord(kw, ret.val[i])

\* C8: every stored record that has each keyword of the query as a literal,
\* case-insensitive substring of one of its four fields is returned.
SearchComplete ==
    (ret.op = "search_recipes" /\ QueryWords(ret.query) # {})
        => \A i \in 1..Len(store) :
              (\A kw \in QueryWords(ret.query) : KeywordInRecord(kw, RowToDict(store[i])))
                 => \E j \in 1..Len(ret.val) : ret.val[j].url = store[i].url

IsBlank(q) == \A i \in 1..Len(q) : IsSpace(q, i)

\* C9: search_recipes with an empty or whitespace-only query returns the
\* empty list, whatever the store holds, and does not raise.
BlankQueryReturnsEmpty ==
    (ret.op = "search_recipes" /\ IsBlank(ret.query))
        => (ret.val = <<>> /\ ~ret.raised)

\* a whitespace-only query was run on a non-empty store
BlankQueryOnStore ==
    /\ ret.op = "search_recipes"
    /\ IsBlank(ret.query)
    /\ Len(ret.query) = 2
    /\ store # <<>>

\* title order of the claims: s sorts before t, or equals it, by code point
TitleLeq(s, t) ==
    \E k \in 0..Len(s) :
        /\ k <= Len(t)
        /\ \A m \in 1..k : s[m] = t[m]
        /\ \/ k = Len(s)
           \/ (k < Len(t) /\ Code(s[k + 1]) < Code(t[k + 1]))

ListOps == {"search_recipes", "get_all_recipes", "search_allrecipes_live"}

\* C10: the lists of search_recipes, get_all_recipes and
\* search_allrecipes_live ascend by title and hold no record twice.
ResultsOrderedByTitle ==
    ret.op \in ListOps
        => /\ \A i \in 1..(Len(ret.val) - 1) :
                TitleLeq(ret.val[i].title, ret.val[i + 1].title)
           /\ \A i, j \in 1..Len(ret.val) : ret.val[i].id = ret.val[j].id => i = j

\* a returned list of two records that were inserted in the other order
ResultReordered ==
    /\ ret.op \in ListOps
    /\ Len(ret.val) = 2
    /\ ret.val[1].id > ret.val[2].id
    /\ ret.val[1].title # ret.val[2].title

\* C11: get_random_recipe returns None, without raising, exactly when the
\* store is empty; otherwise it returns one record that is in the store.
RandomRecipeFromStore ==
    ret.op = "get_random_recipe"
        => /\ ~ret.raised
           /\ ret.none <=> store = <<>>
           /\ ret.none => ret.val = <<>>
           /\ ~ret.none =>
                /\ Len(ret.val) = 1
                /\ \E i \in 1..Len(store) :
                     /\ store[i].id = ret.val[1].id
                     /\ store[i].url = ret.val[1].url
                     /\ store[i].title = ret.val[1].title
                     /\ store[i].image_url = ret.val[1].image_url
                     /\ store[i].cuisine = ret.val[1].cuisine
                     /\ store[i].total_time = ret.val[1].total_time

\* get_random_recipe picked the second of two stored records
RandomPickedSecond ==
    /\ ret.op = "get_random_recipe"
    /\ Len(store) = 2
    /\ ~ret.none
    /\ ret.val[1].id = 2

RecordOps == {"search_recipes", "get_all_recipes", "get_random_recipe",
              "search_allrecipes_live"}

\* C12: every record a query function returns carries the ingredient and
\* instruction sequences of the page it was stored from: same elements,
\* same order, same duplicates.
RoundTrip ==
    ret.op \in RecordOps
        => \A i \in 1..Len(ret.val) :
              /\ ret.val[i].ingredients = origin[ret.val[i].url].ingredients
              /\ ret.val[i].instructions = origin[ret.val[i].url].instructions

\* a returned record whose instructions repeat an element and hold a
\* backslash, and one whose ingredient holds a double quote
RoundTripEscapes ==
    /\ ret.op \in RecordOps
    /\ \E i \in 1..Len(ret.val) :
         ret.val[i].instructions = << <<"b">>, <<"b">>, <<"\\">> >>
    /\ \E i \in 1..Len(ret.val) :
         ret.val[i].ingredients = << <<"a", "\"", "b">> >>

\* ---------------------------------------------------------------------
\* scraper/menu_scraper.py: menu text extraction
\* ---------------------------------------------------------------------

JS_RENDER_THRESHOLD == 200

max_chars == 15000

\* len("\n... [truncated]")
TruncationMarkerLen == 16

\* A text is known by the page it was cleaned from, by how many of that
\* page's cleaned characters it keeps (a prefix), and by whether the
\* truncation marker follows them.  All empty texts are the one string "".
EmptyText == [src |-> "none", kept |-> 0, marker |-> FALSE]

Text(src, kept, marker) ==
    IF kept = 0 /\ ~marker THEN EmptyText
    ELSE [src |-> src, kept |-> kept, marker |-> marker]

\* len(text)
TextLen(text) == text.kept + (IF text.marker THEN TruncationMarkerLen ELSE 0)

\* len(text.strip()): every line of a cleaned text is stripped and not
\* empty, and the marker ends in "]", so strip() removes nothing
StripLen(text) == TextLen(text)

\* a cap that also cuts a text of exactly max_chars characters
CleanHtmlCutsAtCap(src, chars) ==
    IF chars >= max_chars THEN Text(src, max_chars, TRUE)
    ELSE Text(src, chars, FALSE)

\* _clean_html of a page whose visible text, lines stripped and blank
\* lines dropped, has chars characters
CleanHtml(src, chars) ==
    IF chars > max_chars THEN Text(src, max_chars, TRUE)
    ELSE Text(src, chars, FALSE)

IsJsRenderedAtMost(text) == StripLen(text) <= JS_RENDER_THRESHOLD

\* is_js_rendered
IsJsRendered(text) == StripLen(text) < JS_RENDER_THRESHOLD

\* the visible-text lengths of the pages fetched
PageLengths == {0, 1, 150, 199, 200, 201, 500, 14999, 15000, 15001, 15200}

\* requests.RequestException: timeout, connection error, raise_for_status
RequestExceptions == {"timeout", "connection_error", "http_error"}

\* what the static path can meet: a transport or status error, a page, or
\* an error of the parser while cleaning the page
StaticOutcomes ==
    {[kind |-> k, chars |-> 0] : k \in RequestExceptions \cup {"clean_error"}}
    \cup {[kind |-> "ok", chars |-> n] : n \in PageLengths}

\* what the rendered path can meet: the playwright import failing, an event
\* loop already running, the browser not launching, the navigation timing
\* out, an error while cleaning, or a rendered page
RenderedFailures == {"import_error", "loop_running", "launch_error",
                     "goto_timeout", "clean_error"}

RenderedOutcomes ==
    {[kind |-> k, chars |-> 0] : k \in RenderedFailures}
    \cup {[kind |-> "ok", chars |-> n] : n \in PageLengths}

NoRendered == [kind |-> "none", chars |-> 0]

\* the try block of the static path: only requests.RequestException is
\* caught, and bs_text stays ""
StaticFetch(static) ==
    IF static.kind \in RequestExceptions
    THEN [raised |-> FALSE, text |-> EmptyText]
    ELSE IF static.kind = "ok"
    THEN [raised |-> FALSE, text |-> CleanHtml("static", static.chars)]
    ELSE [raised |-> TRUE, text |-> EmptyText]

\* _scrape_with_playwright: the import stands outside its try block
ScrapeWithPlaywright(rendered) ==
    IF rendered.kind = "import_error"
    THEN [raised |-> TRUE, text |-> EmptyText]
    ELSE IF rendered.kind = "ok"
    THEN [raised |-> FALSE, text |-> CleanHtml("rendered", rendered.chars)]
    ELSE [raised |-> FALSE, text |-> EmptyText]

\* asyncio.run(_scrape_with_playwright(url))
AsyncioRun(rendered) ==
    IF rendered.kind = "loop_running"
    THEN [raised |-> TRUE, text |-> EmptyText]
    ELSE ScrapeWithPlaywright(rendered)

\* a call of the rendered path with no handler around it
NoExcept(r) == r

\* except Exception: pw_text = ""
ExceptException(r) ==
    IF r.raised THEN [raised |-> FALSE, text |-> EmptyText] ELSE r

\* always the static text
SelectStatic(pw_text, bs_text) == bs_text

\* the rendered text already when it is as long as the static text
SelectAtLeast(pw_text, bs_text) ==
    IF TextLen(pw_text) >= TextLen(bs_text) THEN pw_text ELSE bs_text

\* return pw_text if len(pw_text) > len(bs_text) else bs_text
Select(pw_text, bs_text) ==
    IF TextLen(pw_text) > TextLen(bs_text) THEN pw_text ELSE bs_text

\* scrape_menu_text, given what its two fetches meet
ScrapeMenuText(static, rendered) ==
    LET s == StaticFetch(static) IN
    IF s.raised
    THEN [raised |-> TRUE, val |-> EmptyText, attempted |-> FALSE,
          bs_text |-> EmptyText, pw_text |-> EmptyText]
    ELSE IF ~IsJsRendered(s.text)
    THEN [raised |-> FALSE, val |-> s.text, attempted |-> FALSE,
          bs_text |-> s.text, pw_text |-> EmptyText]
    ELSE LET r == ExceptException(AsyncioRun(rendered)) IN
         IF r.raised
         THEN [raised |-> TRUE, val |-> EmptyText, attempted |-> TRUE,
               bs_text |-> s.text, pw_text |-> EmptyText]
         ELSE [raised |-> FALSE, val |-> Select(r.text, s.text),
               attempted |-> TRUE, bs_text |-> s.text, pw_text |-> r.text]

\* scrape_menu_text(url)
ScrapeMenuTextCall ==
    /\ \E static \in StaticOutcomes, rendered \in RenderedOutcomes :
         LET r == ScrapeMenuText(static, rendered) IN
         menu' = [op |-> "scrape_menu_text",
                  static |-> static,
                  rendered |-> IF r.attempted THEN rendered ELSE NoRendered,
                  attempted |-> r.attempted,
                  bs_text |-> r.bs_text,
                  pw_text |-> r.pw_text,
                  val |-> r.val,
                  raised |-> r.raised]
    /\ UNCHANGED <<recipes, geo, overpass, robots, gemini>>

NextMenu == ScrapeMenuTextCall

SpecMenu == Init /\ [][NextMenu]_vars

\* the call returned, its static text shorter than 200 characters
StaticTooShort ==
    /\ menu.op = "scrape_menu_text"
    /\ ~menu.raised
    /\ TextLen(menu.bs_text) < 200

RenderedSucceeded == menu.attempted /\ menu.rendered.kind = "ok"

RenderedFailed == menu.attempted /\ menu.rendered.kind # "ok"

\* C13: with a static text under 200 characters, a rendered fetch that
\* succeeds with strictly more characters has its text returned (static
\* 150, rendered 500: the 500 rendered characters), and a rendered fetch
\* that fails leaves the static text returned unchanged.
TooShortStaticSelection ==
    StaticTooShort =>
        /\ (RenderedSucceeded /\ TextLen(menu.pw_text) > TextLen(menu.bs_text))
              => /\ menu.val = menu.pw_text
                 /\ menu.val.src = "rendered"
        /\ RenderedFailed => menu.val = menu.bs_text
        /\ (menu.static = [kind |-> "ok", chars |-> 150]
              /\ menu.rendered = [kind |-> "ok", chars |-> 500])
              => menu.val = [src |-> "rendered", kept |-> 500, marker |-> FALSE]
        /\ (menu.static = [kind |-> "ok", chars |-> 150] /\ RenderedFailed)
              => menu.val = [src |-> "static", kept |-> 150, marker |-> FALSE]

\* static 150 characters, rendered 500: the rendered text came back
Static150Rendered500 ==
    /\ StaticTooShort
    /\ menu.static = [kind |-> "ok", chars |-> 150]
    /\ menu.rendered = [kind |-> "ok", chars |-> 500]
    /\ menu.val.src = "rendered"

\* C14 as stated: with a static text under 200 characters and a rendered
\* fetch that succeeds, the rendered text is returned whatever the lengths.
RenderedAlwaysWins ==
    (StaticTooShort /\ RenderedSucceeded) => menu.val = menu.pw_text

\* C14: with a static text under 200 characters and a rendered fetch that
\* succeeds, the rendered text is returned when it is strictly longer than
\* the static text, and the static text is returned otherwise.
LongerTextWins ==
    (StaticTooShort /\ RenderedSucceeded) =>
        IF TextLen(menu.pw_text) > TextLen(menu.bs_text)
        THEN menu.val = menu.pw_text
        ELSE menu.val = menu.bs_text

\* a rendered fetch succeeded with a text as long as the static one, and
\* the static text came back
RenderedNotLongerLost ==
    /\ StaticTooShort
    /\ RenderedSucceeded
    /\ menu.static.chars = 150
    /\ menu.rendered.chars = 150
    /\ menu.val.src = "static"

\* the length of the cleaned static text, from what the static fetch met
CleanedStaticLen ==
    IF menu.static.kind # "ok" THEN 0
    ELSE IF menu.static.chars > 15000 THEN 15000 + 16
    ELSE menu.static.chars

\* C15: the rendered path is attempted if and only if the cleaned static
\* text has fewer than 200 characters: a static text of 200 or more
\* characters is returned directly, and a static fetch that fails with a
\* transport or status error counts as empty text and leads to the attempt.
RenderedIffStaticShort ==
    (menu.op = "scrape_menu_text" /\ ~menu.raised) =>
        /\ menu.attempted <=> CleanedStaticLen < 200
        /\ CleanedStaticLen >= 200
              => /\ menu.val = menu.bs_text
                 /\ menu.val.src = "static"
                 /\ menu.rendered = NoRendered
        /\ menu.static.kind \in RequestExceptions
              => /\ menu.bs_text = EmptyText
                 /\ menu.attempted

\* the static fetch timed out and the rendered path was attempted
RenderedAfterStaticFailure ==
    /\ menu.op = "scrape_menu_text"
    /\ menu.static.kind = "timeout"
    /\ menu.attempted
    /\ menu.rendered.kind = "ok"
    /\ menu.val.src = "rendered"

\* C16: when the static fetch and the rendered fetch both fail, the call
\* returns the empty string; no transport failure of the static path and no
\* failure of the rendered path reaches the caller as an exception.
BothFailReturnsEmpty ==
    menu.op = "scrape_menu_text" =>
        /\ menu.static.kind \in RequestExceptions => ~menu.raised
        /\ menu.attempted => ~menu.raised
        /\ (menu.static.kind \in RequestExceptions
              /\ menu.rendered.kind \in RenderedFailures)
              => menu.val = EmptyText

\* the static fetch met a status error and the playwright import failed
BothFetchesFailed ==
    /\ menu.op = "scrape_menu_text"
    /\ menu.static.kind = "http_error"
    /\ menu.rendered.kind = "import_error"
    /\ menu.val = EmptyText
    /\ ~menu.raised

\* text is the cleaning of a page with chars visible characters
Capped(text, src, chars) ==
    /\ chars <= 15000 => (text.kept = chars /\ ~text.marker)
    /\ chars > 15000 => (text.kept = 15000 /\ text.marker /\ text.src = src)
    /\ text.marker <=> text.kept < chars
    /\ text.kept > 0 => text.src = src

\* C17: the cleaning step caps a text at 15,000 characters: a content of at
\* most 15,000 characters is returned whole with no marker, a longer one as
\* its first 15,000 characters followed by the marker, on either path; the
\* marker is present if and only if content was cut.
CleanedTextCapped ==
    (menu.op = "scrape_menu_text" /\ ~menu.raised) =>
        /\ menu.static.kind = "ok"
              => Capped(menu.bs_text, "static", menu.static.chars)
        /\ menu.rendered.kind = "ok"
              => Capped(menu.pw_text, "rendered", menu.rendered.chars)
        /\ menu.val \in {menu.bs_text, menu.pw_text}
        /\ menu.val.kept <= 15000

\* a page of 15,001 characters came back cut, one of 15,000 characters whole
StaticPageCut ==
    /\ menu.op = "scrape_menu_text"
    /\ menu.static.chars = 15001
    /\ menu.val = [src |-> "static", kept |-> 15000, marker |-> TRUE]

\* ---------------------------------------------------------------------
\* scraper/menu_scraper.py: neighbourhood bounding boxes
\* ---------------------------------------------------------------------

UpperCase == <<"A", "B", "C", "D", "E", "F", "G", "H", "I", "J", "K", "L", "M",
               "N", "O", "P", "Q", "R", "S", "T", "U", "V", "W", "X", "Y", "Z">>

LowerCase == <<"a", "b", "c", "d", "e", "f", "g", "h", "i", "j", "k", "l", "m",
               "n", "o", "p", "q", "r", "s", "t", "u", "v", "w", "x", "y", "z">>

\* str.lower()
PyLower(s) ==
    [i \in 1..Len(s) |->
        IF \E n \in 1..26 : UpperCase[n] = s[i]
        THEN LowerCase[CHOOSE n \in 1..26 : UpperCase[n] = s[i]]
        ELSE s[i]]

\* str.upper()
PyUpper(s) ==
    [i \in 1..Len(s) |->
        IF \E n \in 1..26 : LowerCase[n] = s[i]
        THEN UpperCase[CHOOSE n \in 1..26 : LowerCase[n] = s[i]]
        ELSE s[i]]

\* sub in s
In(sub, s) ==
    \E i \in 0..(Len(s) - Len(sub)) : SubSeq(s, i + 1, i + Len(sub)) = sub

\* a box with north and south exchanged
BoxNorthFirst(south, west, north, east) ==
    [south |-> north, west |-> west, north |-> south, east |-> east]

\* a bounding box (south, west, north, east), in ten-thousandths of a degree
Box(south, west, north, east) ==
    [south |-> south, west |-> west, north |-> north, east |-> east]

\* the table, in the order of its entries
NEIGHBOURHOOD_BBOXES ==
    <<
       [name |-> <<"d", "o", "w", "n", "t", "o", "w", "n">>,
        bbox |-> Box(492760, -1231350, 492920, -1231050)],
       [name |-> <<"g", "a", "s", "t", "o", "w", "n">>,
        bbox |-> Box(492820, -1231120, 492870, -1230970)],
       [name |-> <<"c", "h", "i", "n", "a", "t", "o", "w", "n">>,
        bbox |-> Box(492770, -1231060, 492820, -1230950)],
       [name |-> <<"y", "a", "l", "e", "t", "o", "w", "n">>,
        bbox |-> Box(492700, -1231250, 492780, -1231100)],
       [name |-> <<"w", "e", "s", "t", " ", "e", "n", "d">>,
        bbox |-> Box(492800, -1231450, 492920, -1231250)],
       [name |-> <<"m", "o", "u", "n", "t", " ", "p", "l", "e", "a", "s", "a", "n", "t">>,
        bbox |-> Box(492530, -1231150, 492700, -1230850)],
       [name |-> <<"k", "i", "t", "s", "i", "l", "a", "n", "o">>,
        bbox |-> Box(492600, -1231750, 492750, -1231350)],
       [name |-> <<"c", "o", "m", "m", "e", "r", "c", "i", "a", "l", " ", "d", "r", "i", "v", "e">>,
        bbox |-> Box(492560, -1230740, 492750, -1230630)],
       [name |-> <<"m", "a", "i", "n", " ", "s", "t", "r", "e", "e", "t">>,
        bbox |-> Box(492430, -1231050, 492650, -1230900)],
       [name |-> <<"h", "a", "s", "t", "i", "n", "g", "s", "-", "s", "u", "n", "r", "i", "s", "e">>,
        bbox |-> Box(492750, -1230550, 492850, -1230150)],
       [name |-> <<"s", "t", "r", "a", "t", "h", "c", "o", "n", "a">>,
        bbox |-> Box(492700, -1230900, 492780, -1230720)],
       [name |-> <<"g", "r", "a", "n", "d", "v", "i", "e", "w", "-", "w", "o", "o", "d", "l", "a", "n", "d">>,
        bbox |-> Box(492700, -1230750, 492820, -1230500)],
       [name |-> <<"f", "a", "i", "r", "v", "i", "e", "w">>,
        bbox |-> Box(492600, -1231400, 492720, -1231150)],
       [name |-> <<"s", "o", "u", "t", "h", " ", "g", "r", "a", "n", "v", "i", "l", "l", "e">>,
        bbox |-> Box(492500, -1231500, 492630, -1231350)],
       [name |-> <<"k", "e", "r", "r", "i", "s", "d", "a", "l", "e">>,
        bbox |-> Box(492270, -1231600, 492420, -1231400)],
       [name |-> <<"d", "u", "n", "b", "a", "r">>,
        bbox |-> Box(492350, -1231900, 492550, -1231650)],
       [name |-> <<"p", "o", "i", "n", "t", " ", "g", "r", "e", "y">>,
        bbox |-> Box(492600, -1232100, 492750, -1231850)],
       [name |-> <<"r", "i", "l", "e", "y", " ", "p", "a", "r", "k">>,
        bbox |-> Box(492400, -1231050, 492540, -1230850)],
       [name |-> <<"c", "a", "m", "b", "i", "e">>,
        bbox |-> Box(492370, -1231250, 492530, -1231050)],
       [name |-> <<"m", "a", "r", "p", "o", "l", "e">>,
        bbox |-> Box(492050, -1231400, 492250, -1231200)],
       [name |-> <<"c", "o", "a", "l", " ", "h", "a", "r", "b", "o", "u", "r">>,
        bbox |-> Box(492870, -1231300, 492950, -1231100)],
       [name |-> <<"o", "l", "y", "m", "p", "i", "c", " ", "v", "i", "l", "l", "a", "g", "e">>,
        bbox |-> Box(492660, -1231120, 492730, -1231000)],
       [name |-> <<"v", "a", "n", "c", "o", "u", "v", "e", "r">>,
        bbox |-> Box(492000, -1232500, 493200, -1230200)]
    >>

\* NEIGHBOURHOOD_BBOXES[name]
BboxOf(name) ==
    NEIGHBOURHOOD_BBOXES[CHOOSE i \in 1..Len(NEIGHBOURHOOD_BBOXES) :
                            NEIGHBOURHOOD_BBOXES[i].name = name].bbox

abbreviations ==
    <<
       [abbrev |-> <<"m", "t">>, full |-> <<"m", "o", "u", "n", "t">>],
       [abbrev |-> <<"c", "o", "m", "m">>, full |-> <<"c", "o", "m", "m", "e", "r", "c", "i", "a", "l">>],
       [abbrev |-> <<"e", " ", "v", "a", "n">>, full |-> <<"h", "a", "s", "t", "i", "n", "g", "s">>],
       [abbrev |-> <<"k", "i", "t", "s">>, full |-> <<"k", "i", "t", "s", "i", "l", "a", "n", "o">>]
    >>

\* key in NEIGHBOURHOOD_BBOXES
IsKey(key) ==
    \E i \in 1..Len(NEIGHBOURHOOD_BBOXES) : NEIGHBOURHOOD_BBOXES[i].name = key

\* the loop over the table run from its last entry: the index of the last
\* entry whose name contains key or is contained in it, 0 if there is none
RECURSIVE LastPartial(_, _)
LastPartial(key, i) ==
    LET j == Len(NEIGHBOURHOOD_BBOXES) + 1 - i IN
    IF i > Len(NEIGHBOURHOOD_BBOXES) THEN 0
    ELSE IF In(key, NEIGHBOURHOOD_BBOXES[j].name)
            \/ In(NEIGHBOURHOOD_BBOXES[j].name, key)
    THEN j
    ELSE LastPartial(key, i + 1)

\* the partial-match loop from entry i on: the index of the first entry
\* whose name contains key or is contained in it, 0 if there is none
RECURSIVE FirstPartial(_, _)
FirstPartial(key, i) ==
    IF i > Len(NEIGHBOURHOOD_BBOXES) THEN 0
    ELSE IF In(key, NEIGHBOURHOOD_BBOXES[i].name)
            \/ In(NEIGHBOURHOOD_BBOXES[i].name, key)
    THEN i
    ELSE FirstPartial(key, i + 1)

\* the inner loop of the abbreviation step: the first entry from i on whose
\* name contains full, 0 if there is none
RECURSIVE FirstNamed(_, _)
FirstNamed(full, i) ==
    IF i > Len(NEIGHBOURHOOD_BBOXES) THEN 0
    ELSE IF In(full, NEIGHBOURHOOD_BBOXES[i].name) THEN i
    ELSE FirstNamed(full, i + 1)

\* no abbreviation step
NoAbbreviation(key, a) == 0

\* the abbreviation loop from abbreviation a on: the index of the entry it
\* returns, 0 if it returns none
RECURSIVE FirstAbbreviated(_, _)
FirstAbbreviated(key, a) ==
    IF a > Len(abbreviations) THEN 0
    ELSE IF In(abbreviations[a].abbrev, key)
            /\ FirstNamed(abbreviations[a].full, 1) # 0
    THEN FirstNamed(abbreviations[a].full, 1)
    ELSE FirstAbbreviated(key, a + 1)

\* _get_bbox
GetBbox(neighbourhood) ==
    LET key == PyLower(Strip(neighbourhood))
        p == FirstPartial(key, 1)
        a == FirstAbbreviated(key, 1)
    IN  IF IsKey(key)
        THEN [raised |-> FALSE, how |-> "exact", key |-> key, bbox |-> BboxOf(key)]
        ELSE IF p # 0
        THEN [raised |-> FALSE, how |-> "partial", key |-> key,
              bbox |-> NEIGHBOURHOOD_BBOXES[p].bbox]
        ELSE IF a # 0
        THEN [raised |-> FALSE, how |-> "abbreviation", key |-> key,
              bbox |-> NEIGHBOURHOOD_BBOXES[a].bbox]
        ELSE [raised |-> FALSE, how |-> "fallback", key |-> key,
              bbox |-> BboxOf(<<"v", "a", "n", "c", "o", "u", "v", "e", "r">>)]

Names == {NEIGHBOURHOOD_BBOXES[i].name : i \in 1..Len(NEIGHBOURHOOD_BBOXES)}

\* every piece of a name
Pieces(name) ==
    UNION {{SubSeq(name, i, j) : j \in i..Len(name)} : i \in 1..Len(name)}

OtherNeighbourhoods ==
    {
       <<"m", "t", " ", "p", "l", "e", "a", "s", "a", "n", "t">>,
       <<"N", "o", "n", "e", "x", "i", "s", "t", "e", "n", "t", " ", "A", "r", "e", "a">>,
       <<"M", "t", " ", "P", "l", "e", "a", "s", "a", "n", "t">>,
       <<" ", " ", "M", "o", "u", "n", "t", " ", "P", "l", "e", "a", "s", "a", "n", "t", " ">>,
       <<"k", "i", "t", "s", " ", "b", "e", "a", "c", "h">>,
       <<"e", " ", "v", "a", "n">>,
       <<"E", "a", "s", "t", " ", "V", "a", "n">>,
       <<"m", "t">>,
       <<"x", "y", "z">>,
       <<"d", "o", "w", "n", "t", "o", "w", "n", " ", "g", "a", "s", "t", "o", "w", "n">>,
       <<"m", "t", " ", "d", "o", "w", "n", "t", "o", "w", "n">>,
       <<"c", "o", "m", "m", " ", "d", "r">>,
       <<" ", " ", " ">>,
       <<"K", "I", "T", "S">>,
       <<"t", "h", "e", " ", "w", "e", "s", "t", " ", "e", "n", "d", " ", "o", "f", " ", "t", "o", "w", "n">>
    }

\* the names a caller passes: the table's names, in capitals, with blanks
\* around them, every piece of them, the empty string, and some others
Neighbourhoods ==
    UNION {Pieces(name) : name \in Names}
    \cup {PyUpper(name) : name \in Names}
    \cup {<<" ">> \o name \o <<" ", " ">> : name \in Names}
    \cup {<<>>}
    \cup OtherNeighbourhoods

\* a caller about to pass one of the names
InitGeo ==
    /\ store = <<>>
    /\ schema = FALSE
    /\ ret = [op |-> "none"]
    /\ call = NoCall
    /\ batch = Idle
    /\ origin = [u \in URLs |-> NoPage]
    /\ procs = <<>>
    /\ lock = 0
    /\ menu = NoMenu
    /\ overpass = NoOverpass
    /\ robots = NoRobots
    /\ gemini = NoGemini
    /\ geo \in {[op |-> "input", neighbourhood |-> n] : n \in Neighbourhoods}

\* _get_bbox(neighbourhood)
GetBboxCall ==
    /\ geo.op = "input"
    /\ LET r == GetBbox(geo.neighbourhood) IN
       geo' = [op |-> "_get_bbox", neighbourhood |-> geo.neighbourhood,
               key |-> r.key, how |-> r.how, bbox |-> r.bbox,
               raised |-> r.raised]
    /\ UNCHANGED <<recipes, menu, overpass, robots, gemini>>

NextGeo == GetBboxCall

SpecGeo == InitGeo /\ [][NextGeo]_vars

Boxes == {NEIGHBOURHOOD_BBOXES[i].bbox : i \in 1..Len(NEIGHBOURHOOD_BBOXES)}

\* C18: _get_bbox returns a bounding box and does not raise, whatever the
\* input; "mt pleasant" gets the box of the key "mount pleasant", and
\* "Nonexistent Area" gets the whole-region box of the key "vancouver".
AlwaysABox ==
    geo.op = "_get_bbox" =>
        /\ ~geo.raised
        /\ geo.bbox \in Boxes
        /\ geo.neighbourhood = <<"m", "t", " ", "p", "l", "e", "a", "s", "a", "n", "t">>
              => geo.bbox = BboxOf(<<"m", "o", "u", "n", "t", " ", "p", "l",
                                     "e", "a", "s", "a", "n", "t">>)
        /\ geo.neighbourhood = <<"N", "o", "n", "e", "x", "i", "s", "t", "e", "n",
                                 "t", " ", "A", "r", "e", "a">>
              => geo.bbox = BboxOf(<<"v", "a", "n", "c", "o", "u", "v", "e", "r">>)

\* "mt pleasant" was resolved through the abbreviation table
MtPleasantResolved ==
    /\ geo.op = "_get_bbox"
    /\ geo.neighbourhood = <<"m", "t", " ", "p", "l", "e", "a", "s", "a", "n", "t">>
    /\ geo.how = "abbreviation"
    /\ geo.bbox = Box(492530, -1231150, 492700, -1230850)

\* the table entries whose name contains key or is contained in it
PartialAt(key) ==
    {i \in 1..Len(NEIGHBOURHOOD_BBOXES) :
        In(key, NEIGHBOURHOOD_BBOXES[i].name) \/ In(NEIGHBOURHOOD_BBOXES[i].name, key)}

\* the abbreviations that occur in key
AbbreviationsIn(key) ==
    {a \in 1..Len(abbreviations) : In(abbreviations[a].abbrev, key)}

\* the table entries whose name contains full
NamedAt(full) ==
    {i \in 1..Len(NEIGHBOURHOOD_BBOXES) : In(full, NEIGHBOURHOOD_BBOXES[i].name)}

Least(S) == CHOOSE n \in S : \A m \in S : n <= m

\* C19: resolution follows a fixed precedence: an input equal, trimmed and
\* lower-cased, to a table key gets that key's own box; otherwise the first
\* key in table order that contains the input or is contained in it
\* decides; otherwise the abbreviation table does; the whole-region box is
\* the fallback only when none of the three steps matches.
ResolutionPrecedence ==
    geo.op = "_get_bbox" =>
        LET key == PyLower(Strip(geo.neighbourhood)) IN
        IF key \in Names
        THEN geo.bbox = BboxOf(key)
        ELSE IF PartialAt(key) # {}
        THEN geo.bbox = NEIGHBOURHOOD_BBOXES[Least(PartialAt(key))].bbox
        ELSE IF AbbreviationsIn(key) # {}
        THEN geo.bbox =
                NEIGHBOURHOOD_BBOXES[
                    Least(NamedAt(abbreviations[Least(AbbreviationsIn(key))].full))].bbox
        ELSE /\ geo.bbox = BboxOf(<<"v", "a", "n", "c", "o", "u", "v", "e", "r">>)
             /\ geo.how = "fallback"

\* an input that is no key and is part of several keys got the box of the
\* first of them
FirstOfSeveralKeys ==
    /\ geo.op = "_get_bbox"
    /\ geo.key \notin Names
    /\ Cardinality(PartialAt(geo.key)) > 1
    /\ geo.how = "partial"
    /\ geo.bbox = NEIGHBOURHOOD_BBOXES[Least(PartialAt(geo.key))].bbox
    /\ geo.bbox # BboxOf(<<"v", "a", "n", "c", "o", "u", "v", "e", "r">>)

\* C20: every bounding box _get_bbox can return, every entry of the table
\* with the whole-region fallback among them, has south < north and
\* west < east.
BoxesWellFormed ==
    /\ \A i \in 1..Len(NEIGHBOURHOOD_BBOXES) :
          /\ NEIGHBOURHOOD_BBOXES[i].bbox.south < NEIGHBOURHOOD_BBOXES[i].bbox.north
          /\ NEIGHBOURHOOD_BBOXES[i].bbox.west < NEIGHBOURHOOD_BBOXES[i].bbox.east
    /\ geo.op = "_get_bbox" =>
          /\ geo.bbox.south < geo.bbox.north
          /\ geo.bbox.west < geo.bbox.east

\* the whole-region box came back as the fallback
FallbackBoxReturned ==
    /\ geo.op = "_get_bbox"
    /\ geo.how = "fallback"
    /\ geo.bbox = [south |-> 492000, west |-> -1232500,
                   north |-> 493200, east |-> -1230200]

\* C39 as stated: an area name that is empty or holds only blanks matches
\* none of the named areas and resolves to the whole-region ("vancouver")
\* fallback box.
BlankNameFallsBack ==
    (/\ geo.op = "_get_bbox"
     /\ \A i \in 1..Len(geo.neighbourhood) : geo.neighbourhood[i] = " ")
        => /\ geo.how = "fallback"
           /\ geo.bbox = BboxOf(<<"v", "a", "n", "c", "o", "u", "v", "e", "r">>)

\* ---------------------------------------------------------------------
\* scraper/recipe_scraper.py: the two batches
\* ---------------------------------------------------------------------

\* the positions of a results page that hold a recipe link not seen before
NewRecipeLinks(links) ==
    {i \in 1..Len(links) :
        /\ links[i] \in URLs
        /\ \A j \in 1..(i - 1) : links[j] # links[i]}

\* the k-th smallest member of a set of positions
Nth(P, k) == CHOOSE i \in P : Cardinality({j \in P : j <= i}) = k

\* C24: for max_results of 1 or more, search_allrecipes_live makes at most
\* max_results calls of scrape_and_store however many links match; its
\* candidate URLs are pairwise distinct and are the first matching links of
\* the page, in page order.
LiveSearchBounded ==
    (ret.op = "search_allrecipes_live" /\ ret.fetched /\ ret.max_results >= 1) =>
        LET P == NewRecipeLinks(ret.links) IN
        /\ ret.requests <= ret.max_results
        /\ ret.requests <= Len(ret.urls)
        /\ \A i, j \in 1..Len(ret.urls) : i # j => ret.urls[i] # ret.urls[j]
        /\ Len(ret.urls) = IF Cardinality(P) < ret.max_results
                           THEN Cardinality(P) ELSE ret.max_results
        /\ \A k \in 1..Len(ret.urls) : ret.urls[k] = ret.links[Nth(P, k)]

\* a page with two recipe links searched with max_results = 1: one request
MoreLinksThanResults ==
    /\ ret.op = "search_allrecipes_live"
    /\ ret.max_results = 1
    /\ Cardinality(NewRecipeLinks(ret.links)) = 2
    /\ ret.requests = 1
    /\ ret.urls = <<ret.links[1]>>

\* C25: search_allrecipes_live returns exactly the stored records whose URL
\* is a candidate of the call, each once, records stored by earlier calls
\* included; so it returns at most as many records as there are candidates.
LiveSearchReturnsCandidates ==
    (ret.op = "search_allrecipes_live" /\ ~ret.raised) =>
        LET cand == {ret.urls[k] : k \in 1..Len(ret.urls)} IN
        /\ \A i \in 1..Len(ret.val) : ret.val[i].url \in cand
        /\ \A i, j \in 1..Len(ret.val) : i # j => ret.val[i].url # ret.val[j].url
        /\ \A i \in 1..Len(ret.val) :
              \E n \in 1..Len(store) : ret.val[i] = RowToDict(store[n])
        /\ \A n \in 1..Len(store) :
              store[n].url \in cand
                  => \E i \in 1..Len(ret.val) : ret.val[i].url = store[n].url
        /\ Len(ret.val) <= Len(ret.urls)

\* the only candidate was stored by an earlier call, its extraction now
\* inserted nothing, and its record came back, another stored record not
CachedRecordReturned ==
    /\ ret.op = "search_allrecipes_live"
    /\ Len(ret.urls) = 1
    /\ ~call.val
    /\ Len(store) = 2
    /\ Len(ret.val) = 1
    /\ ret.val[1].url = ret.urls[1]

\* C26: when the results page cannot be fetched, or holds no link matching
\* a recipe pattern, search_allrecipes_live returns an empty list, calls
\* scrape_and_store not at all and leaves the store as it was.
NoCandidatesNoWork ==
    [][(/\ ret'.op = "search_allrecipes_live"
        /\ \/ ~ret'.fetched
           \/ \A i \in 1..Len(ret'.links) : ret'.links[i] \notin URLs)
          => /\ ret'.val = <<>>
             /\ ~ret'.raised
             /\ ret'.requests = 0
             /\ call' = NoCall
             /\ store' = store
             /\ schema' = schema]_vars

\* a page without recipe links was searched over a store that holds records
PageWithoutRecipeLinks ==
    /\ ret.op = "search_allrecipes_live"
    /\ ret.fetched
    /\ ret.links = <<OtherLink, OtherLink>>
    /\ ret.val = <<>>
    /\ store # <<>>

\* the fetch of the results page failed over a store that holds records
ResultsPageNotFetched ==
    /\ ret.op = "search_allrecipes_live"
    /\ ~ret.fetched
    /\ ret.val = <<>>
    /\ store # <<>>

Batches == {"bulk_scrape", "search_allrecipes_live"}

\* C27: in both batches a failed extraction never ends the batch: each URL
\* of the batch is passed to scrape_and_store once, in list order, whatever
\* became of the earlier ones, and the record of a URL whose extraction
\* succeeded is in the store.
BatchNeverAborts ==
    [][/\ (batch = Idle /\ batch' # Idle) => batch'.i = 0
       /\ batch.op \in Batches =>
            LET i == batch.i + 1 IN
            /\ call'.op = "scrape_and_store"
            /\ call'.url = batch.urls[i]
            /\ ~call'.raised
            /\ call'.outcome.kind = "ok" => HasUrl(store', call'.url)
            /\ IF i < Len(batch.urls)
               THEN /\ batch'.op = batch.op
                    /\ batch'.urls = batch.urls
                    /\ batch'.i = i
               ELSE /\ batch' = Idle
                    /\ ret'.op = batch.op
                    /\ ret'.urls = batch.urls
                    /\ ~ret'.raised]_vars

\* a batch of two URLs ended: the first extraction had failed, the second
\* one stored its record
SecondStoredAfterFailure ==
    /\ ret.op \in Batches
    /\ Len(ret.urls) = 2
    /\ ret.urls[1] # ret.urls[2]
    /\ ~HasUrl(store, ret.urls[1])
    /\ call.url = ret.urls[2]
    /\ call.val
    /\ HasUrl(store, ret.urls[2])

\* C28: the requests of one search_allrecipes_live call follow one another:
\* each request but the last is followed by one delay of 1 second before
\* the next starts, so n candidates make n requests and n - 1 delays, and
\* no delay follows the last request.
LiveSearchSequential ==
    /\ batch.op = "search_allrecipes_live" =>
          /\ batch.i < Len(batch.urls)
          /\ batch.sleeps = batch.i
          /\ batch.slept = batch.i * 1
    /\ (ret.op = "search_allrecipes_live" /\ ret.max_results >= 1
          /\ ret.urls # <<>>) =>
          /\ ret.requests = Len(ret.urls)
          /\ ret.sleeps = Len(ret.urls) - 1
          /\ ret.slept = (Len(ret.urls) - 1) * 1

\* a search with two candidates ended after two requests and one delay
TwoRequestsOneDelay ==
    /\ ret.op = "search_allrecipes_live"
    /\ Len(ret.urls) = 2
    /\ ret.requests = 2
    /\ ret.sleeps = 1
    /\ ret.slept = 1

\* what the item now processed adds to the count of bulk_scrape
Contribution ==
    (IF batch' = Idle THEN ret'.val ELSE batch'.stored_count) - batch.stored_count

\* the numbers bulk_scrape returns with
BulkScrapeTotals ==
    ret'.op = "bulk_scrape" =>
        /\ ret'.val = Len(store') - ret'.before
        /\ ret'.val <= Cardinality({ret'.urls[k] : k \in 1..Len(ret'.urls)})
        /\ ret'.urls # <<>> =>
              /\ ret'.sleeps = Len(ret'.urls) - 1
              /\ ret'.slept = 2 * (Len(ret'.urls) - 1)
        /\ ret'.urls = <<>> => ret'.slept = 0

\* C29 as stated: bulk_scrape returns the number of records the call
\* inserted, at most the number of distinct URLs of the list; an item whose
\* URL occurs earlier in the list or is already stored adds 0; a 2-second
\* delay separates consecutive items and none follows the last.
BulkScrapeRepeatAddsNothing ==
    [][/\ BulkScrapeTotals
       /\ batch.op = "bulk_scrape" =>
            LET i == batch.i + 1 IN
            (\/ \E j \in 1..(i - 1) : batch.urls[j] = batch.urls[i]
             \/ HasUrl(store, batch.urls[i]))
                => Contribution = 0]_vars

\* C29: bulk_scrape returns the number of records the call inserted, at
\* most the number of distinct URLs of the list; an item whose URL is
\* stored when its turn comes, from before the call or from an earlier item
\* of the list, adds 0, and every other item adds 1 or 0; a 2-second delay
\* separates consecutive items and none follows the last.
BulkScrapeCountsInserts ==
    [][/\ BulkScrapeTotals
       /\ batch.op = "bulk_scrape" =>
            LET i == batch.i + 1 IN
            /\ Contribution \in {0, 1}
            /\ Contribution = Len(store') - Len(store)
            /\ HasUrl(store, batch.urls[i]) => Contribution = 0]_vars

\* a list naming one URL twice, the first item stored, returned 1
RepeatedUrlCountedOnce ==
    /\ ret.op = "bulk_scrape"
    /\ Len(ret.urls) = 2
    /\ ret.urls[1] = ret.urls[2]
    /\ ret.val = 1
    /\ ret.slept = 2
    /\ ~call.val
    /\ call.outcome.kind = "ok"

\* C38 as stated: search_allrecipes_live called with max_results = 0 issues
\* no extraction request and returns an empty list, even when the results
\* page holds matching recipe links: its scrape loop is never entered.
ZeroMaxResultsNoWork ==
    /\ batch.op = "search_allrecipes_live" => batch.max_results # 0
    /\ (ret.op = "search_allrecipes_live" /\ ret.max_results = 0)
          => /\ ret.requests = 0
             /\ ret.val = <<>>

\* C37: a failure of the cuisine getter does not abort the extraction: for
\* a URL not yet stored, scrape_and_store inserts the record with a null
\* cuisine and returns True; an image or a total time the page does not
\* give is stored as null and is no failure either.
OptionalFieldsDegradeToNull ==
    [][(/\ call'.op = "scrape_and_store"
        /\ call'.outcome.kind = "ok"
        /\ ~HasUrl(store, call'.url))
        => /\ call'.val
           /\ ~call'.raised
           /\ Len(store') = Len(store) + 1
           /\ LET row == store'[Len(store')]
                  page == call'.outcome.page
              IN  /\ row.url = call'.url
                  /\ row.title = page.title
                  /\ page.cuisine = Raises => row.cuisine = None
                  /\ page.image = <<>> => row.image_url = None
                  /\ page.total_time = 0 => row.total_time = None]_vars

\* a page whose cuisine getter raised and that gives no image was stored,
\* with neither, by a call that returned True
StoredWithoutCuisine ==
    /\ call.op = "scrape_and_store"
    /\ call.outcome.kind = "ok"
    /\ call.outcome.page.cuisine = Raises
    /\ call.outcome.page.image = <<>>
    /\ call.val
    /\ \E i \in 1..Len(store) :
          /\ store[i].url = call.url
          /\ store[i].cuisine = None
          /\ store[i].image_url = None

\* a page that gives no total time was stored with a null total time
StoredWithoutTotalTime ==
    /\ call.op = "scrape_and_store"
    /\ call.outcome.kind = "ok"
    /\ call.outcome.page.total_time = 0
    /\ call.val
    /\ \E i \in 1..Len(store) :
          store[i].url = call.url /\ store[i].total_time = None

\* ---------------------------------------------------------------------
\* app/streamlit_app.py: the search view
\* ---------------------------------------------------------------------

\* max_results: int = 12
DefaultMaxResults == 12

\* the handler runs "if search_clicked and search_query": texts other
\* than ""
ViewQueries == {<<"a">>, <<"b">>, <<" ">>}

\* the scrape loop of search_allrecipes_live run to its end: the rows of
\* the store, and the pages the new rows were built from
RECURSIVE LiveScrapes(_, _, _, _)
LiveScrapes(rows, org, urls, outcomes) ==
    IF urls = <<>> THEN [rows |-> rows, origin |-> org]
    ELSE LET r == ScrapeAndStore(rows, Head(urls), Head(outcomes))
         IN  LiveScrapes(r.rows, Remember(org, Head(urls), Head(outcomes), r),
                         Tail(urls), Tail(outcomes))

\* the search handler: results = search_recipes(q), and when that list is
\* empty results = search_allrecipes_live(q)
SearchViewCall ==
    /\ batch = Idle
    /\ \E query \in ViewQueries :
         LET local == SearchRows(store, query) IN
         IF local # <<>>
         THEN /\ \E rows \in OrderByTitle(local) :
                   ret' = [op |-> "search_view", query |-> query, live |-> FALSE,
                           val |-> RowsToDicts(rows)]
              /\ UNCHANGED <<store, origin>>
         ELSE \E page \in {<<FALSE, <<>>>>} \cup ({TRUE} \X SeqsUpTo(Links, MaxLinks)) :
                LET urls == CollectUrls(page[2], {}, <<>>, DefaultMaxResults) IN
                IF ~page[1] \/ urls = <<>>
                THEN /\ ret' = [op |-> "search_view", query |-> query,
                                live |-> TRUE, val |-> <<>>]
                     /\ UNCHANGED <<store, origin>>
                ELSE \E outcomes \in [1..Len(urls) -> Outcomes] :
                       LET s == LiveScrapes(store, origin, urls, outcomes) IN
                       /\ store' = s.rows
                       /\ origin' = s.origin
                       /\ \E rows \in OrderByTitle(RowsWithUrlIn(s.rows, urls)) :
                            ret' = [op |-> "search_view", query |-> query,
                                    live |-> TRUE, val |-> RowsToDicts(rows)]
    /\ schema' = TRUE
    /\ call' = NoCall
    /\ UNCHANGED <<batch, procs, lock, aside>>

NextView == SearchViewCall

SpecView == Init /\ [][NextView]_vars

\* C32 as stated: once search_allrecipes_live(term) has cached its results,
\* the term is served from the local store: search_recipes(term) then
\* returns a list that is not empty, so the search flow, which searches the
\* site only when the local result is empty, does not search it again.
CachedTermFoundLocally ==
    (/\ ret.op = "search_view"
     /\ ret.live
     /\ ret.val # <<>>)
        => SearchRows(store, ret.query) # <<>>

\* ---------------------------------------------------------------------
\* scraper/menu_scraper.py: restaurant discovery
\* ---------------------------------------------------------------------

MaxElements == 2

OVERPASS_URLS == <<"overpass-api.de", "overpass.kumi.systems">>

MAX_RETRIES == 2

\* str.strip(chars)
RECURSIVE LStripOf(_, _)
LStripOf(s, chars) ==
    IF s # <<>> /\ Head(s) \in chars THEN LStripOf(Tail(s), chars) ELSE s

RECURSIVE RStripOf(_, _)
RStripOf(s, chars) ==
    IF s # <<>> /\ s[Len(s)] \in chars
    THEN RStripOf(SubSeq(s, 1, Len(s) - 1), chars) ELSE s

StripOf(s, chars) == RStripOf(LStripOf(s, chars), chars)

\* the tags of an element; None stands for a tag that is absent
NoTags == [name |-> None, website |-> None, contact_website |-> None,
           street |-> None, housenumber |-> None, city |-> None]

\* tags.get(key, default)
TagGet(v, default) == IF v = None THEN default ELSE v

\* the truth value of a tag: absent and "" are false
Truthy(v) == v # None /\ v # <<>>

\* f"{housenumber} {street}, {city}".strip(", ")
Address(tags) ==
    StripOf(TagGet(tags.housenumber, <<>>) \o <<" ">> \o TagGet(tags.street, <<>>)
                \o <<",", " ">> \o TagGet(tags.city, <<"V", "a", "n", "c", "o", "u", "v", "e", "r">>),
            {",", " "})

\* the contact tag asked first
WebsiteContactFirst(tags) ==
    IF Truthy(tags.contact_website) THEN tags.contact_website
    ELSE IF Truthy(tags.website) THEN tags.website
    ELSE None

\* tags.get("website") or tags.get("contact:website") or None
Website(tags) ==
    IF Truthy(tags.website) THEN tags.website
    ELSE IF Truthy(tags.contact_website) THEN tags.contact_website
    ELSE None

\* no element skipped
AnyName(tags) == TRUE

\* name = tags.get("name"); an element is skipped if not name
HasName(tags) == Truthy(tags.name)

\* the loop over data.get("elements", [])
RECURSIVE ParseElements(_)
ParseElements(elements) ==
    IF elements = <<>> THEN <<>>
    ELSE LET element == Head(elements)
             rest == ParseElements(Tail(elements))
         IN  IF ~HasName(element.tags) THEN rest
             ELSE <<[name |-> element.tags.name,
                     address |-> Address(element.tags),
                     website |-> Website(element.tags),
                     osm_id |-> element.id]>> \o rest

\* the tags of the elements the service answers with
TagSets ==
    {NoTags,
     [NoTags EXCEPT !.name = <<>>],
     [NoTags EXCEPT !.name = <<"A">>, !.website = <<"w">>],
     [NoTags EXCEPT !.name = <<"B">>, !.contact_website = <<"c">>,
                    !.street = <<"M", "a", "i", "n">>],
     [NoTags EXCEPT !.name = <<"C">>, !.website = <<"w">>,
                    !.contact_website = <<"c">>],
     [NoTags EXCEPT !.name = <<"D">>, !.website = <<>>,
                    !.contact_website = <<"c">>, !.city = <<"B", "u", "r", "n", "a", "b", "y">>]}

Elements == {[id |-> i, tags |-> t] : i \in {1, 2}, t \in TagSets}

\* a JSON object without the key "elements"
NoElementsKey == [has_elements |-> FALSE, elements |-> <<>>]

\* data.get("elements", [])
ElementsOf(data) == IF data.has_elements THEN data.elements ELSE <<>>

\* what a request to an endpoint meets: a transport or status error, or a
\* JSON object
OverpassOutcomes ==
    {[kind |-> k, data |-> NoElementsKey] : k \in RequestExceptions}
    \cup {[kind |-> "ok", data |-> NoElementsKey]}
    \cup {[kind |-> "ok", data |-> [has_elements |-> TRUE, elements |-> d]] :
              d \in SeqsUpTo(Elements, MaxElements)}

\* an exception handler that lets the error through
CatchesNothing(kind) == FALSE

\* except requests.RequestException
CatchesRequestException(kind) == kind \in RequestExceptions

\* one attempt more than MAX_RETRIES
InRangePlusOne(attempt) == attempt <= MAX_RETRIES + 1

\* attempt in range(1, MAX_RETRIES + 1)
InRange(attempt) == attempt <= MAX_RETRIES

\* a pause after every failed attempt
BackoffAlways(attempt) == 2 * attempt

\* if attempt < MAX_RETRIES: time.sleep(2 * attempt)
Backoff(attempt) == IF attempt < MAX_RETRIES THEN 2 * attempt ELSE 0

\* the names get_restaurants is called with
Areas == {<<"k", "i", "t", "s">>, <<"x", "y", "z">>}

\* get_restaurants(neighbourhood): the box is looked up and the query built
GetRestaurantsCall ==
    /\ overpass.op # "running"
    /\ \E neighbourhood \in Areas :
         overpass' = [op |-> "running", bbox |-> GetBbox(neighbourhood).bbox,
                      server |-> 1, attempt |-> 1, log |-> <<>>]
    /\ UNCHANGED <<recipes, menu, geo, robots, gemini>>

\* the call returns
Returned(log, answered, data, val, raised) ==
    [op |-> "get_restaurants", bbox |-> overpass.bbox, log |-> log,
     answered |-> answered, data |-> data, val |-> val, raised |-> raised]

\* one requests.post of the retry loop, with what follows it: the pause and
\* the next attempt, the next endpoint, or the parsing and the return
OverpassAttempt ==
    /\ overpass.op = "running"
    /\ \E outcome \in OverpassOutcomes :
         LET failed == outcome.kind # "ok"
             caught == failed /\ CatchesRequestException(outcome.kind)
             log == Append(overpass.log,
                           [server |-> overpass.server,
                            attempt |-> overpass.attempt,
                            kind |-> outcome.kind,
                            waited |-> IF caught THEN Backoff(overpass.attempt)
                                       ELSE 0])
         IN  IF ~failed
             THEN overpass' = Returned(log, TRUE, outcome.data,
                                       ParseElements(ElementsOf(outcome.data)),
                                       FALSE)
             ELSE IF ~caught
             THEN overpass' = Returned(log, FALSE, NoElementsKey, <<>>, TRUE)
             ELSE IF InRange(overpass.attempt + 1)
             THEN overpass' = [overpass EXCEPT !.attempt = @ + 1, !.log = log]
             ELSE IF overpass.server < Len(OVERPASS_URLS)
             THEN overpass' = [overpass EXCEPT !.server = @ + 1, !.attempt = 1,
                                               !.log = log]
             ELSE overpass' = Returned(log, FALSE, NoElementsKey, <<>>, FALSE)
    /\ UNCHANGED <<recipes, menu, geo, robots, gemini>>

NextOverpass == GetRestaurantsCall \/ OverpassAttempt

SpecOverpass == Init /\ [][NextOverpass]_vars

\* the requests get_restaurants has sent so far
Requests == IF overpass.op = "none" THEN <<>> ELSE overpass.log

TransportErrors == {"timeout", "connection_error", "http_error"}

\* C21: when every request to every endpoint fails with a transport error,
\* get_restaurants returns an empty list and raises nothing; a call sends a
\* bounded number of requests, at most 2 to each of the 2 endpoints, and
\* has returned once they are sent.
AllEndpointsFailReturnsEmpty ==
    /\ Len(Requests) <= 4
    /\ overpass.op = "running" => Len(Requests) < 4
    /\ (/\ overpass.op = "get_restaurants"
        /\ \A i \in 1..Len(Requests) : Requests[i].kind \in TransportErrors)
          => /\ overpass.val = <<>>
             /\ ~overpass.raised
             /\ Len(Requests) = 4

\* a call returned an empty list after a timeout, a status error, a
\* connection error and another timeout
AllEndpointsFailed ==
    /\ overpass.op = "get_restaurants"
    /\ Len(Requests) = 4
    /\ Requests[1].kind = "timeout"
    /\ Requests[2].kind = "http_error"
    /\ Requests[3].kind = "connection_error"
    /\ Requests[4].kind = "timeout"
    /\ overpass.val = <<>>
    /\ ~overpass.raised

\* C22: the endpoints are contacted in list order under one retry policy:
\* at most 2 requests go to an endpoint, a mirror gets a request only after
\* every allowed attempt on all earlier endpoints has failed, no request
\* follows the first successful response, and a call sends at most 2 times
\* the number of endpoints requests.
EndpointsInOrder ==
    LET log == Requests IN
    /\ Len(log) <= 2 * Len(OVERPASS_URLS)
    /\ \A s \in 1..Len(OVERPASS_URLS) :
          Cardinality({i \in 1..Len(log) : log[i].server = s}) <= 2
    /\ \A i \in 1..Len(log) :
          /\ log[i].server \in 1..Len(OVERPASS_URLS)
          /\ log[i].attempt = Cardinality({j \in 1..i : log[j].server = log[i].server})
          /\ \A s \in 1..(log[i].server - 1) :
                Cardinality({j \in 1..(i - 1) :
                                log[j].server = s /\ log[j].kind # "ok"}) = 2
          /\ \A j \in 1..(i - 1) : log[j].kind # "ok"
    /\ (Len(log) > 0 /\ log[Len(log)].kind = "ok") => overpass.op = "get_restaurants"

\* the primary endpoint failed twice, the mirror failed once and then
\* answered, and the call returned what it sent
MirrorAnsweredOnRetry ==
    /\ overpass.op = "get_restaurants"
    /\ Len(Requests) = 4
    /\ Requests[3].server = 2
    /\ Requests[4].server = 2
    /\ Requests[4].kind = "ok"
    /\ overpass.val # <<>>

\* the elements of the response that carry a name
NamedElements ==
    SelectSeq(ElementsOf(overpass.data),
              LAMBDA e : e.tags.name # None /\ e.tags.name # <<>>)

\* C30: every point of interest get_restaurants returns has a name that is
\* not empty: an element with no name tag, or an empty one, is skipped, and
\* the list holds one entry for each named element, in the order of the
\* response.
OnlyNamedReturned ==
    (overpass.op = "get_restaurants" /\ overpass.answered) =>
        /\ \A k \in 1..Len(overpass.val) :
              /\ overpass.val[k].name # None
              /\ overpass.val[k].name # <<>>
        /\ Len(overpass.val) = Len(NamedElements)
        /\ \A k \in 1..Len(overpass.val) :
              /\ overpass.val[k].name = NamedElements[k].tags.name
              /\ overpass.val[k].osm_id = NamedElements[k].id

\* the response held an element with an empty name before a named one, and
\* only the named one came back
UnnamedSkipped ==
    /\ overpass.op = "get_restaurants"
    /\ overpass.answered
    /\ Len(overpass.data.elements) = 2
    /\ overpass.data.elements[1].tags.name = <<>>
    /\ Len(overpass.val) = 1
    /\ overpass.val[1].name = <<"B">>
    /\ overpass.val[1].osm_id = overpass.data.elements[2].id

\* C34: the backoff of get_restaurants grows linearly and happens only
\* between attempts on one endpoint: after the k-th failed attempt on an
\* endpoint the call waits 2*k seconds when k is less than MAX_RETRIES, and
\* it waits neither after the last allowed attempt on an endpoint nor after
\* a success.
BackoffBetweenAttempts ==
    \A i \in 1..Len(Requests) :
        Requests[i].waited =
            IF Requests[i].kind # "ok" /\ Requests[i].attempt < MAX_RETRIES
            THEN 2 * Requests[i].attempt
            ELSE 0

\* the primary endpoint failed twice: 2 seconds passed before its second
\* attempt and none before the first attempt on the mirror, which answered
FailoverWithoutWait ==
    /\ overpass.op = "get_restaurants"
    /\ Len(Requests) = 3
    /\ Requests[1].kind # "ok" /\ Requests[1].waited = 2
    /\ Requests[2].kind # "ok" /\ Requests[2].waited = 0
    /\ Requests[3].server = 2
    /\ Requests[3].kind = "ok" /\ Requests[3].waited = 0

\* C36: the website of a returned point of interest is the "website" tag
\* when that tag is present and not empty, otherwise the "contact:website"
\* tag when that one is, otherwise None; the address is the default city
\* "Vancouver" when the element has no street, house number or city tag.
WebsiteAndAddressFallbacks ==
    (overpass.op = "get_restaurants" /\ overpass.answered) =>
        \A k \in 1..Len(overpass.val) :
            LET t == NamedElements[k].tags IN
            /\ overpass.val[k].website =
                  IF t.website # None /\ t.website # <<>> THEN t.website
                  ELSE IF t.contact_website # None /\ t.contact_website # <<>>
                  THEN t.contact_website
                  ELSE None
            /\ (t.street = None /\ t.housenumber = None /\ t.city = None)
                  => overpass.val[k].address
                        = <<"V", "a", "n", "c", "o", "u", "v", "e", "r">>

\* an element with both website tags and no address tag came back with the
\* canonical website and the default city
CanonicalWebsitePreferred ==
    /\ overpass.op = "get_restaurants"
    /\ overpass.answered
    /\ Len(overpass.val) = 1
    /\ NamedElements[1].tags.website = <<"w">>
    /\ NamedElements[1].tags.contact_website = <<"c">>
    /\ overpass.val[1].website = <<"w">>
    /\ overpass.val[1].address = <<"V", "a", "n", "c", "o", "u", "v", "e", "r">>

\* ---------------------------------------------------------------------
\* scraper/menu_scraper.py: the robots.txt check
\* (urllib.robotparser.RobotFileParser as the standard library defines it)
\* ---------------------------------------------------------------------

\* robots.txt files, line by line: a line is blank, holds one of the fields
\* user-agent, disallow, allow with its value, or is something else
RobotsFiles ==
    {
     <<>>,
     <<[field |-> "junk", value |-> <<"<", "h", "t", "m", "l", ">">>],
       [field |-> "junk", value |-> <<"<", "/", "h", "t", "m", "l", ">">>]>>,
     <<[field |-> "user-agent", value |-> <<"*">>],
       [field |-> "disallow", value |-> <<"/", "m", "e", "n", "u">>]>>,
     <<[field |-> "user-agent", value |-> <<"*">>],
       [field |-> "disallow", value |-> <<"/">>]>>,
     <<[field |-> "user-agent", value |-> <<"*">>],
       [field |-> "disallow", value |-> <<>>]>>,
     <<[field |-> "user-agent", value |-> <<"m", "u", "n", "c", "h", "r">>],
       [field |-> "disallow", value |-> <<"/", "m", "e", "n", "u">>],
       [field |-> "blank", value |-> <<>>],
       [field |-> "user-agent", value |-> <<"*">>],
       [field |-> "allow", value |-> <<"/">>]>>,
     <<[field |-> "user-agent", value |-> <<"*">>],
       [field |-> "allow", value |-> <<"/", "m", "e", "n", "u", "/", "l", "u", "n", "c", "h">>],
       [field |-> "disallow", value |-> <<"/", "m", "e", "n", "u">>]>>,
     <<[field |-> "disallow", value |-> <<"/", "m", "e", "n", "u">>]>>
    }

\* what fetching robots.txt meets: urlopen raising URLError (timeout,
\* connection error), an HTTP error status, a body that is not UTF-8, or a file
RobotsFetches ==
    {[kind |-> k, code |-> 0, file |-> <<>>] :
        k \in {"timeout", "connection_error", "undecodable"}}
    \cup {[kind |-> "http_error", code |-> c, file |-> <<>>] :
             c \in {401, 403, 404, 500, 503}}
    \cup {[kind |-> "ok", code |-> 200, file |-> f] : f \in RobotsFiles}

\* RobotFileParser.__init__
NewParser == [disallow_all |-> FALSE, allow_all |-> FALSE, last_checked |-> FALSE,
              entries |-> <<>>, default_entry |-> <<>>]

NewEntry == [useragents |-> <<>>, rulelines |-> <<>>]

\* RobotFileParser._add_entry: the first entry naming "*" is the default one
AddEntry(rp, entry) ==
    IF \E i \in 1..Len(entry.useragents) : entry.useragents[i] = <<"*">>
    THEN IF rp.default_entry = <<>> THEN [rp EXCEPT !.default_entry = <<entry>>]
         ELSE rp
    ELSE [rp EXCEPT !.entries = Append(@, entry)]

\* RuleLine.__init__: an empty Disallow allows everything
RuleLine(path, allowance) ==
    [path |-> path, allowance |-> allowance \/ path = <<>>]

\* RobotFileParser.parse: the loop over the lines and the entry left open
RECURSIVE ParseRobots(_, _, _, _)
ParseRobots(lines, state, entry, rp) ==
    IF lines = <<>>
    THEN IF state = 2 THEN AddEntry(rp, entry) ELSE rp
    ELSE LET line == Head(lines) rest == Tail(lines) IN
         IF line.field = "blank"
         THEN ParseRobots(rest, 0, NewEntry,
                          IF state = 2 THEN AddEntry(rp, entry) ELSE rp)
         ELSE IF line.field = "user-agent"
         THEN ParseRobots(rest, 1,
                          [useragents |->
                               Append(IF state = 2 THEN <<>> ELSE entry.useragents,
                                      line.value),
                           rulelines |->
                               IF state = 2 THEN <<>> ELSE entry.rulelines],
                          IF state = 2 THEN AddEntry(rp, entry) ELSE rp)
         ELSE IF line.field \in {"disallow", "allow"} /\ state # 0
         THEN ParseRobots(rest, 2,
                          [entry EXCEPT !.rulelines =
                               Append(@, RuleLine(line.value, line.field = "allow"))],
                          rp)
         ELSE ParseRobots(rest, state, entry, rp)

\* RobotFileParser.read: urlopen, the HTTPError handler, decode and parse
Read(fetch) ==
    IF fetch.kind = "http_error"
    THEN IF fetch.code \in {401, 403}
         THEN [raised |-> FALSE, rp |-> [NewParser EXCEPT !.disallow_all = TRUE]]
         ELSE IF fetch.code >= 400 /\ fetch.code < 500
         THEN [raised |-> FALSE, rp |-> [NewParser EXCEPT !.allow_all = TRUE]]
         ELSE [raised |-> FALSE, rp |-> NewParser]
    ELSE IF fetch.kind = "ok"
    THEN [raised |-> FALSE,
          rp |-> ParseRobots(fetch.file, 0, NewEntry,
                             [NewParser EXCEPT !.last_checked = TRUE])]
    ELSE [raised |-> TRUE, rp |-> NewParser]

\* useragent.split("/")[0]
RECURSIVE BeforeSlash(_)
BeforeSlash(s) ==
    IF s = <<>> \/ Head(s) = "/" THEN <<>> ELSE <<Head(s)>> \o BeforeSlash(Tail(s))

\* Entry.applies_to
EntryAppliesTo(entry, useragent) ==
    \E i \in 1..Len(entry.useragents) :
        \/ entry.useragents[i] = <<"*">>
        \/ In(PyLower(entry.useragents[i]), PyLower(BeforeSlash(useragent)))

\* Entry.allowance: the first rule line that applies decides
RECURSIVE Allowance(_, _)
Allowance(rulelines, filename) ==
    IF rulelines = <<>> THEN TRUE
    ELSE LET path == Head(rulelines).path IN
         IF path = <<"*">>
            \/ (Len(path) <= Len(filename) /\ SubSeq(filename, 1, Len(path)) = path)
         THEN Head(rulelines).allowance
         ELSE Allowance(Tail(rulelines), filename)

\* the first of the entries that applies to the user agent, if any
RECURSIVE FirstEntryFor(_, _)
FirstEntryFor(entries, useragent) ==
    IF entries = <<>> THEN <<>>
    ELSE IF EntryAppliesTo(Head(entries), useragent) THEN <<Head(entries)>>
    ELSE FirstEntryFor(Tail(entries), useragent)

\* RobotFileParser.can_fetch, for the path of the URL
CanFetch(rp, useragent, path) ==
    LET url == IF path = <<>> THEN <<"/">> ELSE path
        e == FirstEntryFor(rp.entries, useragent)
    IN  IF rp.disallow_all THEN FALSE
        ELSE IF rp.allow_all THEN TRUE
        ELSE IF ~rp.last_checked THEN FALSE
        ELSE IF e # <<>> THEN Allowance(e[1].rulelines, url)
        ELSE IF rp.default_entry # <<>>
        THEN Allowance(rp.default_entry[1].rulelines, url)
        ELSE TRUE

\* is_scraping_allowed: whatever read() raises is caught and answered True
IsScrapingAllowed(path, user_agent, fetch) ==
    LET r == Read(fetch) IN
    IF r.raised THEN [raised |-> FALSE, val |-> TRUE]
    ELSE [raised |-> FALSE, val |-> CanFetch(r.rp, user_agent, path)]

\* the paths of the URLs asked about, and the user agents
Paths == {<<>>, <<"/">>, <<"/", "m", "e", "n", "u">>, <<"/", "m", "e", "n", "u", "/", "l", "u", "n", "c", "h">>, <<"/", "a", "b", "o", "u", "t">>}

UserAgents == {<<"*">>, <<"M", "u", "n", "c", "h", "r", "/", "1", ".", "0">>}

\* a caller about to ask about a URL
InitRobots ==
    /\ store = <<>>
    /\ schema = FALSE
    /\ ret = [op |-> "none"]
    /\ call = NoCall
    /\ batch = Idle
    /\ origin = [u \in URLs |-> NoPage]
    /\ procs = <<>>
    /\ lock = 0
    /\ menu = NoMenu
    /\ geo = NoGeo
    /\ overpass = NoOverpass
    /\ gemini = NoGemini
    /\ robots \in {[op |-> "input", path |-> p, user_agent |-> a, fetch |-> f] :
                      p \in Paths, a \in UserAgents, f \in RobotsFetches}

\* is_scraping_allowed(url, user_agent)
IsScrapingAllowedCall ==
    /\ robots.op = "input"
    /\ LET r == IsScrapingAllowed(robots.path, robots.user_agent, robots.fetch) IN
       robots' = [op |-> "is_scraping_allowed", path |-> robots.path,
                  user_agent |-> robots.user_agent, fetch |-> robots.fetch,
                  val |-> r.val, raised |-> r.raised]
    /\ UNCHANGED <<recipes, menu, geo, overpass, gemini>>

NextRobots == IsScrapingAllowedCall

SpecRobots == InitRobots /\ [][NextRobots]_vars

\* the policy of a fetched file forbids the path to the user agent: a group
\* naming the agent, or else the first group naming "*", has a Disallow
\* rule whose path is not empty and starts the target path
FetchedPolicyForbids ==
    LET target == IF robots.path = <<>> THEN <<"/">> ELSE robots.path IN
    /\ robots.fetch.kind = "ok"
    /\ \E i \in 1..Len(robots.fetch.file) :
          /\ robots.fetch.file[i].field = "disallow"
          /\ robots.fetch.file[i].value # <<>>
          /\ Len(robots.fetch.file[i].value) <= Len(target)
          /\ SubSeq(target, 1, Len(robots.fetch.file[i].value))
                = robots.fetch.file[i].value

\* C23 as stated: is_scraping_allowed fails open: when robots.txt cannot be
\* fetched or parsed (timeout, connection error, any HTTP error status,
\* malformed file) it returns True for every URL and user agent; it returns
\* False only when a policy that was fetched disallows the target path.
RobotsFailOpen ==
    robots.op = "is_scraping_allowed" =>
        /\ ~robots.raised
        /\ robots.fetch.kind # "ok" => robots.val
        /\ ~robots.val => FetchedPolicyForbids

\* ---------------------------------------------------------------------
\* ai/gemini_assistant.py: substitution suggestions
\* ---------------------------------------------------------------------

MaxItems == 2

\* max_attempts = 2
max_attempts == 2

SubstitutionKeys == {"ingredient", "substitute", "ratio", "flavour_note", "tip"}

\* a JSON object of a reply: None stands for a key it does not have, and
\* extra says that it has a key other than the five
EmptyObject == [ingredient |-> None, substitute |-> None, ratio |-> None,
                flavour_note |-> None, tip |-> None, extra |-> FALSE]

Objects ==
    {EmptyObject,
     [EmptyObject EXCEPT !.ingredient = <<"i">>, !.extra = TRUE],
     [ingredient |-> <<"i">>, substitute |-> <<"s">>, ratio |-> <<"r">>,
      flavour_note |-> <<"f">>, tip |-> <<"t">>, extra |-> FALSE]}

\* what json.loads makes of a text: a JSONDecodeError, or a value that is
\* an object, an array, a string, or a number, true, false or null
Invalid == [type |-> "invalid"]

Scalars == {[type |-> "str"], [type |-> "num"]}

JsonValues ==
    {Invalid}
    \cup Scalars
    \cup {[type |-> "dict", d |-> o] : o \in Objects}
    \cup {[type |-> "list", items |-> l] :
             l \in SeqsUpTo(Scalars \cup {[type |-> "dict", d |-> o] : o \in Objects},
                            MaxItems)}

\* what client.models.generate_content meets: an error of the API, a
\* response without text, or a text, with or without a code fence around it
GeminiOutcomes ==
    {[kind |-> k, fenced |-> FALSE, body |-> Invalid] : k \in {"api_error", "no_text"}}
    \cup {[kind |-> "ok", fenced |-> f, body |-> b] : f \in BOOLEAN, b \in JsonValues}

\* the two ifs that take a leading and a trailing ``` off the text
StripFence(reply) == [reply EXCEPT !.fenced = FALSE]

\* json.loads(raw_response): a fence left in the text is no JSON
ReplyLoads(reply) == IF reply.fenced THEN Invalid ELSE reply.body

\* an item handed on as the model sent it
ItemAsSent(d) == d

\* the dict appended to validated: the five keys, with item.get's defaults
ValidatedItem(d) ==
    [ingredient |-> TagGet(d.ingredient, <<>>),
     substitute |-> TagGet(d.substitute, <<"N", "/", "A">>),
     ratio |-> TagGet(d.ratio, <<"N", "/", "A">>),
     flavour_note |-> TagGet(d.flavour_note, <<"N", "/", "A">>),
     tip |-> TagGet(d.tip, <<"N", "/", "A">>)]

\* the validation loop: items that are no dicts are skipped
RECURSIVE Validated(_)
Validated(items) ==
    IF items = <<>> THEN <<>>
    ELSE IF Head(items).type # "dict" THEN Validated(Tail(items))
    ELSE <<ValidatedItem(Head(items).d)>> \o Validated(Tail(items))

\* the same temperature on every attempt
SameTemperature(attempt) == 7

\* temperature=0.4 if attempt > 0 else 0.7, in tenths
Temperature(attempt) == IF attempt > 0 THEN 4 ELSE 7

\* the dict with the key "error"
ErrorDict(message) == [type |-> "dict", keys |-> {"error"}, error |-> message]

\* suggest_substitutes(recipe_title, ingredients, user_query): the API key
\* is read, and without one the call returns
SuggestSubstitutesCall ==
    /\ gemini.op # "running"
    /\ \E api_key \in BOOLEAN :
         gemini' = IF ~api_key
                   THEN [op |-> "suggest_substitutes", api_key |-> FALSE,
                         log |-> <<>>, raised |-> FALSE,
                         val |-> ErrorDict("GEMINI_API_KEY not found")]
                   ELSE [op |-> "running", api_key |-> TRUE, attempt |-> 0,
                         log |-> <<>>]
    /\ UNCHANGED <<recipes, menu, geo, overpass, robots>>

\* the call returns
Suggested(log, val) ==
    [op |-> "suggest_substitutes", api_key |-> TRUE, log |-> log,
     raised |-> FALSE, val |-> val]

\* one pass of the loop: generate_content, the parsing and the validation,
\* and what follows: the return or the next attempt
GenerateContent ==
    /\ gemini.op = "running"
    /\ \E outcome \in GeminiOutcomes :
         LET log == Append(gemini.log,
                           [attempt |-> gemini.attempt,
                            temperature |-> Temperature(gemini.attempt),
                            outcome |-> outcome])
             parsed == ReplyLoads(StripFence(outcome))
             result == IF parsed.type = "dict" THEN <<parsed>>
                       ELSE IF parsed.type = "list" THEN parsed.items
                       ELSE <<>>
             validated == Validated(result)
             last == gemini.attempt + 1 >= max_attempts
             again == [gemini EXCEPT !.attempt = @ + 1, !.log = log]
         IN  IF outcome.kind # "ok"
             THEN gemini' = Suggested(log, ErrorDict("Gemini API call failed"))
             ELSE IF parsed.type = "invalid"
             THEN gemini' = IF ~last THEN again
                            ELSE Suggested(log, ErrorDict("invalid response"))
             ELSE IF parsed.type = "num"
             THEN gemini' = Suggested(log, ErrorDict("Gemini API call failed"))
             ELSE IF validated # <<>>
             THEN gemini' = Suggested(log, [type |-> "list", items |-> validated])
             ELSE gemini' = IF ~last THEN again
                            ELSE Suggested(log,
                                     ErrorDict("invalid response after retrying"))
    /\ UNCHANGED <<recipes, menu, geo, overpass, robots>>

NextGemini == SuggestSubstitutesCall \/ GenerateContent

SpecGemini == Init /\ [][NextGemini]_vars

\* the model calls suggest_substitutes has made so far
ModelCalls == IF gemini.op = "none" THEN <<>> ELSE gemini.log

\* a reply holds a JSON object: it is one, or an array with one among its
\* items
HasDictItem(body) ==
    \/ body.type = "dict"
    \/ /\ body.type = "list"
       /\ \E i \in 1..Len(body.items) : body.items[i].type = "dict"

\* C33: suggest_substitutes returns either a list that is not empty and
\* holds only dicts with exactly the keys ingredient, substitute, ratio,
\* flavour_note and tip, or one dict with the key "error"; it returns the
\* error dict when the API key is missing, and when the last model call it
\* made failed or gave a reply that is no valid JSON or holds no dict item;
\* no exception of the model call or of the parsing reaches the caller.
SubstitutesOrError ==
    gemini.op = "suggest_substitutes" =>
        LET log == ModelCalls
            val == gemini.val
        IN  /\ ~gemini.raised
            /\ \/ /\ val.type = "list"
                  /\ val.items # <<>>
                  /\ \A i \in 1..Len(val.items) :
                        DOMAIN val.items[i] = SubstitutionKeys
               \/ /\ val.type = "dict"
                  /\ "error" \in val.keys
            /\ (\/ ~gemini.api_key
                \/ /\ log # <<>>
                   /\ \/ log[Len(log)].outcome.kind # "ok"
                      \/ ~HasDictItem(log[Len(log)].outcome.body))
                  => val.type = "dict"

\* a reply that is no JSON was followed by an array holding a string only,
\* and the call returned the error dict
InvalidThenNoDictItem ==
    /\ gemini.op = "suggest_substitutes"
    /\ Len(ModelCalls) = 2
    /\ ModelCalls[1].outcome.kind = "ok"
    /\ ModelCalls[1].outcome.body = Invalid
    /\ ModelCalls[2].outcome.kind = "ok"
    /\ ModelCalls[2].outcome.body = [type |-> "list", items |-> <<[type |-> "str"]>>]
    /\ gemini.val.type = "dict"
    /\ ~gemini.raised

\* an object with one of the five keys and a foreign one came back as a
\* dict with the five keys
DefaultsFilledIn ==
    /\ gemini.op = "suggest_substitutes"
    /\ Len(ModelCalls) = 1
    /\ ModelCalls[1].outcome.body.type = "dict"
    /\ ModelCalls[1].outcome.body.d.extra
    /\ gemini.val.type = "list"
    /\ Len(gemini.val.items) = 1
    /\ gemini.val.items[1].tip = <<"N", "/", "A">>

\* C35: suggest_substitutes calls the model at most 2 times: the first call
\* has temperature 0.7 and the second 0.4; there is a second call only when
\* the first reply failed to parse as JSON or held no dict item; when the
\* first call fails in another way the error dict is returned at once, and
\* a first reply with a dict item is returned without a second call.
AtMostTwoModelCalls ==
    LET log == ModelCalls IN
    /\ Len(log) <= 2
    /\ gemini.op = "running" => Len(log) < 2
    /\ \A i \in 1..Len(log) :
          /\ log[i].attempt = i - 1
          /\ log[i].temperature = IF i = 1 THEN 7 ELSE 4
    /\ Len(log) >= 1 =>
          LET first == log[1].outcome IN
          /\ (Len(log) = 2 \/ gemini.op = "running")
                => (first.kind = "ok" /\ ~HasDictItem(first.body))
          /\ first.kind # "ok"
                => /\ gemini.op = "suggest_substitutes"
                   /\ Len(log) = 1
                   /\ gemini.val.type = "dict"
          /\ (first.kind = "ok" /\ HasDictItem(first.body))
                => /\ gemini.op = "suggest_substitutes"
                   /\ Len(log) = 1
                   /\ gemini.val.type = "list"

\* a reply that is no JSON at temperature 0.7, then an array with an
\* object at temperature 0.4, which was returned
SecondCallCooler ==
    /\ gemini.op = "suggest_substitutes"
    /\ Len(ModelCalls) = 2
    /\ ModelCalls[1].temperature = 7
    /\ ModelCalls[1].outcome.body = Invalid
    /\ ModelCalls[2].temperature = 4
    /\ gemini.val.type = "list"

====
